---- MODULE Spec2Model ----
(***************************************************************************)
(* Todo microservice (example-microservice): request validation, the todo  *)
(* service operations and the store they run against.                      *)
(*                                                                         *)
(* Strings are sequences of one-character strings.  A nullable column or   *)
(* an optional value is a sequence of length at most one: <<>> is NULL or  *)
(* undefined, <<v>> is the value v.  Timestamps are integers               *)
(* (milliseconds of the process clock).  A well-formed uuid is a positive  *)
(* integer; 0 stands for a path parameter that is not a uuid.              *)
(***************************************************************************)
EXTENDS Integers, Sequences, FiniteSets, TLC

VARIABLES
    table,      \* rows of the todos table
    clock,      \* the process clock, new Date()
    nextId,     \* number of uuids handed out by uuidv4()
    created,    \* history: sequence of the ids assigned by $beforeInsert
    ver,        \* history: per id, number of write statements that changed the row
    pc,         \* per client: position of its request in the handler
    req,        \* per client: the request as received
    loc,        \* per client: the handler's local variables
    resp,       \* per client: the response sent
    nq,         \* per client: store queries executed for the request
    prev,       \* history: per client, summary of its previous completed request
    issued,     \* number of requests received so far
    sent,       \* per client: the todos of the response body as res.json writes them
    life        \* the process: startServer, the HTTP server, the pool, the exit code

vars == <<table, clock, nextId, created, ver, pc, req, loc, resp, nq, prev, issued, sent,
          life>>

----------------------------------------------------------------------------
(* Bounds *)

NumProcs == 2
MaxReqs  == 2
MaxClock == 2
MaxIds   == 2
MaxPage  == 3
MaxConns    == 2
MaxTriggers == 2

Procs == 1..NumProcs

----------------------------------------------------------------------------
(* Program constants *)

TitleMax       == 255
DescriptionMax == 1000
TagMax         == 50
TagsMax        == 10
BulkIdsMax     == 50
SearchMax      == 100
DefaultLimit   == 10
LimitMax       == 100

Priorities == {"low", "medium", "high"}

----------------------------------------------------------------------------
(* Values *)

None    == <<>>
Some(v) == <<v>>

Rep(c, n) == [i \in 1..n |-> c]

\* String.prototype.trim as Joi's string().trim() applies it (convert mode)
RECURSIVE TrimLeft(_)
TrimLeft(s) == IF s # <<>> /\ Head(s) = " " THEN TrimLeft(Tail(s)) ELSE s

RECURSIVE TrimRight(_)
TrimRight(s) ==
    IF s # <<>> /\ s[Len(s)] = " " THEN TrimRight(SubSeq(s, 1, Len(s) - 1)) ELSE s

Trim(s) == TrimRight(TrimLeft(s))

Has(o, k) == k \in DOMAIN o

\* the object o with key k set to v
With(o, k, v) == [x \in (DOMAIN o) \cup {k} |-> IF x = k THEN v ELSE o[x]]

IsoString(t) == [kind |-> "isostring", t |-> t]
BadDate      == [kind |-> "string", t |-> 0]
DateObj(t)   == [kind |-> "Date", t |-> t]

TagArray(a)  == [kind |-> "array", v |-> a]
TagString(s) == [kind |-> "string", v |-> s]

----------------------------------------------------------------------------
(* JSON.stringify of an array of strings *)

RECURSIVE Escape(_)
Escape(s) ==
    IF s = <<>> THEN <<>>
    ELSE IF Head(s) \in {"\"", "\\"} THEN <<"\\", Head(s)>> \o Escape(Tail(s))
    ELSE <<Head(s)>> \o Escape(Tail(s))

Quote(s) == <<"\"">> \o Escape(s) \o <<"\"">>

RECURSIVE JoinQuoted(_)
JoinQuoted(a) ==
    IF a = <<>> THEN <<>>
    ELSE IF Len(a) = 1 THEN Quote(a[1])
    ELSE Quote(a[1]) \o <<",">> \o JoinQuoted(Tail(a))

JsonStringify(a) == <<"[">> \o JoinQuoted(a) \o <<"]">>

\* JSON.parse of a text, for the texts that are an array of strings or no
\* JSON at all: the characters of a string up to its closing quote
RECURSIVE ReadString(_, _)
ReadString(s, acc) ==
    IF s = <<>> THEN None
    ELSE IF Head(s) = "\"" THEN Some([v |-> acc, rest |-> Tail(s)])
    ELSE IF Head(s) = "\\"
         THEN IF Len(s) >= 2 /\ s[2] \in {"\"", "\\"}
              THEN ReadString(Tail(Tail(s)), Append(acc, s[2]))
              ELSE None
    ELSE ReadString(Tail(s), Append(acc, Head(s)))

\* the items of an array from the position where a string has to start
RECURSIVE ReadItems(_, _)
ReadItems(s, acc) ==
    IF s = <<>> \/ Head(s) # "\"" THEN None
    ELSE LET r == ReadString(Tail(s), <<>>) IN
         IF r = None THEN None
         ELSE IF r[1].rest = <<"]">> THEN Some(Append(acc, r[1].v))
         ELSE IF r[1].rest # <<>> /\ Head(r[1].rest) = ","
              THEN ReadItems(Tail(r[1].rest), Append(acc, r[1].v))
         ELSE None

\* the parsed array, or None when JSON.parse throws
JsonParse(s) ==
    IF s = <<"[", "]">> THEN Some(<<>>)
    ELSE IF s # <<>> /\ Head(s) = "[" THEN ReadItems(Tail(s), <<>>)
    ELSE None

----------------------------------------------------------------------------
(* Joi schemas.  A violation is one entry of error.details: the path of    *)
(* the value (scope, field, index of the array item or -1) and the type of *)
(* the rule that failed.                                                   *)

Viol(f, i, t) == [scope |-> "", field |-> f, idx |-> i, type |-> t]

IsUuid(x) == x >= 1

TitleViolations(b, required) ==
    IF ~Has(b, "title")
    THEN IF required THEN {Viol("title", -1, "any.required")} ELSE {}
    ELSE LET t == Trim(b.title) IN
         IF t = <<>> THEN {Viol("title", -1, "string.empty")}
         ELSE IF Len(t) > TitleMax THEN {Viol("title", -1, "string.max")}
         ELSE {}

DescriptionViolations(b) ==
    IF Has(b, "description") /\ Len(Trim(b.description)) > DescriptionMax
    THEN {Viol("description", -1, "string.max")}
    ELSE {}

PriorityViolations(b) ==
    IF Has(b, "priority") /\ b.priority \notin Priorities
    THEN {Viol("priority", -1, "any.only")}
    ELSE {}

DueDateViolations(b, minNow, now) ==
    IF ~Has(b, "dueDate") THEN {}
    ELSE IF b.dueDate.kind # "isostring" THEN {Viol("dueDate", -1, "date.format")}
    ELSE IF minNow /\ b.dueDate.t < now THEN {Viol("dueDate", -1, "date.min")}
    ELSE {}

\* items are validated first; the array rule max(10) runs only when no item failed
TagsViolations(b) ==
    IF ~Has(b, "tags") THEN {}
    ELSE LET a == b.tags.v
             items == {Viol("tags", i - 1, "string.empty") :
                          i \in {j \in 1..Len(a) : Trim(a[j]) = <<>>}}
                      \cup {Viol("tags", i - 1, "string.max") :
                          i \in {j \in 1..Len(a) : Len(Trim(a[j])) > TagMax}}
         IN IF items # {} THEN items
            ELSE IF Len(a) > TagsMax THEN {Viol("tags", -1, "array.max")}
            ELSE {}

TodoKeys == {"title", "description", "priority", "dueDate", "tags", "completed"}

\* variant: unknown keys are kept
StripUnknownKept(b, keys) == b

\* stripUnknown: true removes the keys the schema does not declare
StripUnknown(b, keys) == [k \in (DOMAIN b) \cap keys |-> b[k]]

\* the converted values: trimmed strings, Date objects
Convert(b) ==
    [k \in DOMAIN b |->
        CASE k \in {"title", "description"} -> Trim(b[k])
          [] k = "dueDate" -> DateObj(b[k].t)
          [] k = "tags" -> TagArray([i \in 1..Len(b[k].v) |-> Trim(b[k].v[i])])
          [] OTHER -> b[k]]

\* createTodoSchema: the violations of a body
CreateViolations(b, now) ==
    TitleViolations(b, TRUE) \cup DescriptionViolations(b) \cup PriorityViolations(b)
    \cup DueDateViolations(b, TRUE, now) \cup TagsViolations(b)

\* createTodoSchema: the value of a body without violations
CreateValue(b) ==
    LET v  == Convert(StripUnknown(b, TodoKeys))
        v1 == IF Has(v, "priority") THEN v ELSE With(v, "priority", "medium")
    IN IF Has(v1, "completed") THEN v1 ELSE With(v1, "completed", FALSE)

\* variant: updateTodoSchema without the object rule min(1)
UpdateViolationsNoMin(b) ==
    TitleViolations(b, FALSE) \cup DescriptionViolations(b) \cup PriorityViolations(b)
    \cup DueDateViolations(b, FALSE, 0) \cup TagsViolations(b)

\* updateTodoSchema: the object rule min(1) runs only when no key failed,
\* on the object without its unknown keys
UpdateViolations(b) ==
    LET keys == TitleViolations(b, FALSE) \cup DescriptionViolations(b)
                \cup PriorityViolations(b) \cup DueDateViolations(b, FALSE, 0)
                \cup TagsViolations(b)
    IN IF keys # {} THEN keys
       ELSE IF DOMAIN StripUnknown(b, TodoKeys) = {} THEN {Viol("", -1, "object.min")}
       ELSE {}

UpdateValue(b) == Convert(StripUnknown(b, TodoKeys))

\* variant: the route runs without validateParams
ParamViolationsNone(id) == {}

\* uuidParamSchema
ParamViolations(id) ==
    IF IsUuid(id) THEN {} ELSE {Viol("id", -1, "string.guid")}

\* the ids array of bulkUpdateSchema and bulkDeleteSchema
IdsViolations(b) ==
    IF ~Has(b, "ids") THEN {Viol("ids", -1, "any.required")}
    ELSE LET items == {Viol("ids", i - 1, "string.guid") :
                          i \in {j \in 1..Len(b.ids) : ~IsUuid(b.ids[j])}}
         IN IF items # {} THEN items
            ELSE IF Len(b.ids) < 1 THEN {Viol("ids", -1, "array.min")}
            ELSE IF Len(b.ids) > BulkIdsMax THEN {Viol("ids", -1, "array.max")}
            ELSE {}

InUpdateData(vs) == {[v EXCEPT !.scope = "updateData"] : v \in vs}

BulkUpdateViolations(b) ==
    IdsViolations(b)
    \cup (IF Has(b, "updateData") THEN InUpdateData(UpdateViolations(b.updateData))
          ELSE {Viol("updateData", -1, "any.required")})

BulkUpdateValue(b) == [ids |-> b.ids, updateData |-> UpdateValue(b.updateData)]

----------------------------------------------------------------------------
(* Todo model (objection): jsonSchema validation, hooks, columns *)

\* Todo.jsonSchema as the validator applies it to the object handed to
\* insert (patch = FALSE) or patch (patch = TRUE): a Date object and a
\* JSON string are not of the declared types
ModelValid(json, patch) ==
    /\ patch \/ Has(json, "title")
    /\ Has(json, "title") => Len(json.title) >= 1 /\ Len(json.title) <= TitleMax
    /\ Has(json, "description") => Len(json.description) <= DescriptionMax
    /\ Has(json, "priority") => json.priority \in Priorities
    /\ Has(json, "dueDate") => json.dueDate.kind = "isostring"
    /\ Has(json, "tags") => json.tags.kind = "array"
    /\ Has(json, "id") => IsUuid(json.id)

\* the column value written for a key of the model object
Column(json, k) ==
    CASE k = "description" -> Some(json[k])
      [] k = "dueDate" -> Some(json[k].t)
      [] k = "tags" -> Some(IF json[k].kind = "array" THEN JsonStringify(json[k].v)
                                                    ELSE json[k].v)
      [] OTHER -> json[k]

\* the row the store holds after INSERT of the model object: the columns
\* that are not given take the defaults of the migration
InsertedRow(json) ==
    [id          |-> json.id,
     title       |-> json.title,
     description |-> IF Has(json, "description") THEN Column(json, "description") ELSE None,
     completed   |-> IF Has(json, "completed") THEN json.completed ELSE FALSE,
     priority    |-> IF Has(json, "priority") THEN json.priority ELSE "medium",
     dueDate     |-> IF Has(json, "dueDate") THEN Column(json, "dueDate") ELSE None,
     tags        |-> IF Has(json, "tags") THEN Column(json, "tags") ELSE None,
     createdAt   |-> json.createdAt,
     updatedAt   |-> json.updatedAt]

\* variant: the columns the model object does not give fall back to their
\* defaults
PatchedRowDefaults(row, json) ==
    [c \in DOMAIN row |->
        IF Has(json, c) THEN Column(json, c)
        ELSE IF c = "completed" THEN FALSE
        ELSE IF c = "priority" THEN "medium"
        ELSE row[c]]

\* the row after UPDATE ... SET of the keys of the model object
PatchedRow(row, json) ==
    [c \in DOMAIN row |-> IF Has(json, c) THEN Column(json, c) ELSE row[c]]

\* variant: the first reading of the clock goes to updatedAt
BeforeInsertSwapped(json, uuid, t1, t2) ==
    With(With(With(json, "id", uuid), "createdAt", t2), "updatedAt", t1)

\* $beforeInsert: the two timestamps come from two readings of the clock,
\* t1 and t2
BeforeInsert(json, uuid, t1, t2) ==
    With(With(With(json, "id", uuid), "createdAt", t1), "updatedAt", t2)

\* $beforeUpdate
BeforeUpdate(json, t) == With(json, "updatedAt", t)

\* variant: the getter leaves out the test of completed
IsOverdueAny(row, now) == IF row.dueDate = None THEN FALSE ELSE row.dueDate[1] < now

\* the getter isOverdue at clock reading now
IsOverdue(row, now) ==
    IF row.dueDate = None \/ row.completed THEN FALSE ELSE row.dueDate[1] < now

\* $formatJson: the object res.json writes for a todo, with the virtual
\* property and the tags parsed (null when the text does not parse)
FormatJson(row, now) ==
    [k \in (DOMAIN row) \cup {"isOverdue"} |->
        CASE k = "isOverdue" -> IsOverdue(row, now)
          [] k = "tags" -> IF row.tags = None THEN None ELSE JsonParse(row.tags[1])
          [] OTHER -> row[k]]

\* the service turns a tags array into its JSON text before insert and patch
ProcessTags(data) ==
    IF Has(data, "tags") /\ data.tags.kind = "array"
    THEN With(data, "tags", TagString(JsonStringify(data.tags.v)))
    ELSE data

----------------------------------------------------------------------------
(* Store *)

Ids(t) == {r.id : r \in t}

FindById(id) ==
    IF id \in Ids(table) THEN Some(CHOOSE r \in table : r.id = id) ELSE None

\* UPDATE todos SET ... WHERE id IN ids
UpdateWhereIn(t, ids, json) ==
    {IF r.id \in ids THEN PatchedRow(r, json) ELSE r : r \in t}

SeqRange(s) == {s[i] : i \in 1..Len(s)}

\* DELETE FROM todos WHERE id IN ids
DeleteWhereIn(t, ids) == {r \in t : r.id \notin ids}

\* variant: the statement reports the number of ids it was given
AffectedRequested(t, ids) == Cardinality(ids)

\* the number of rows a statement with WHERE id IN ids affects
Affected(t, ids) == Cardinality({r \in t : r.id \in ids})

\* the ids of the rows inserted before the service starts, in ascending order
RECURSIVE IdSeq(_)
IdSeq(S) ==
    IF S = {} THEN <<>>
    ELSE LET m == CHOOSE x \in S : \A y \in S : x <= y IN <<m>> \o IdSeq(S \ {m})

\* the clock reading at which the service starts; the seeds ran at 0
StartClock == 1

\* the primary key of the migration: the statement fails when it would leave
\* two rows with one id
DuplicateKey(t, ids, json) ==
    /\ Has(json, "id")
    /\ LET hit == {r \in t : r.id \in ids}
       IN \/ Cardinality(hit) > 1
          \/ \E r \in hit : \E r2 \in t : r2 # r /\ r2.id = json.id

----------------------------------------------------------------------------
(* Responses *)

GetErrorCode(status) ==
    CASE status = 400 -> "BAD_REQUEST"
      [] status = 404 -> "NOT_FOUND"
      [] status = 500 -> "INTERNAL_SERVER_ERROR"
      [] status = 503 -> "SERVICE_UNAVAILABLE"
      [] OTHER -> "UNKNOWN_ERROR"

NoResp == [status |-> 0, code |-> "", message |-> "", data |-> None, details |-> {}, count |-> 0]

\* the 400 response of the validation middleware
ValidationError(details) ==
    [NoResp EXCEPT !.status = 400, !.code = "VALIDATION_ERROR",
                   !.message = "Request validation failed", !.details = details]

\* variant: the catch block of the service wraps every error
ApiErrorWrapped(status, message) ==
    [NoResp EXCEPT !.status = 500, !.code = "INTERNAL_SERVER_ERROR", !.message = message]

\* an ApiError thrown by the service, as the error handler sends it
ApiError(status, message) ==
    [NoResp EXCEPT !.status = status, !.code = GetErrorCode(status), !.message = message]

\* a success envelope carrying a todo (or nothing)
Success(status, data) == [NoResp EXCEPT !.status = status, !.data = data]

\* a success envelope carrying a count
SuccessCount(n) == [NoResp EXCEPT !.status = 200, !.count = n]

\* the todos of envelope rs as res.json serializes them at clock reading now
Presented(rs, now) ==
    IF "rows" \in DOMAIN rs THEN [i \in 1..Len(rs.rows) |-> FormatJson(rs.rows[i], now)]
    ELSE IF rs.data # None /\ "id" \in DOMAIN rs.data[1] THEN <<FormatJson(rs.data[1], now)>>
    ELSE <<>>

----------------------------------------------------------------------------
(* Requests of the clients *)

ClientId == MaxIds + 1
AllIds   == 1..ClientId
PathIds  == 0..MaxIds

EmptyBody == [k \in {} |-> 0]

CreateBodies ==
    { [title |-> <<"a">>],
      [title |-> <<" ", "b", " ">>, priority |-> "high", completed |-> TRUE, id |-> 1,
       isOverdue |-> TRUE],
      [title |-> Rep("a", TitleMax), completed |-> FALSE, id |-> ClientId,
       createdAt |-> MaxClock + 1, updatedAt |-> 0],
      [title |-> <<"a">>, tags |-> TagArray(<< <<"x">> >>)],
      [title |-> <<"a">>, dueDate |-> IsoString(MaxClock)],
      [title |-> Rep("a", TitleMax + 1), dueDate |-> IsoString(0)],
      [priority |-> "urgent", tags |-> TagArray(<< <<>>, <<"x">> >>)] }

\* path id and body of the update requests
UpdateRequests ==
    { <<0, EmptyBody>>,
      <<0, [completed |-> TRUE]>>,
      <<1, EmptyBody>>,
      <<1, [id |-> ClientId]>>,
      <<1, [completed |-> TRUE]>>,
      <<1, [title |-> <<"b">>, id |-> ClientId, createdAt |-> MaxClock + 1, updatedAt |-> 0]>>,
      <<2, [priority |-> "low", id |-> 1]>>,
      <<1, [priority |-> "urgent", title |-> <<>>]>>,
      <<1, [tags |-> TagArray(<< <<"x">> >>)]>> }

BulkUpdateBodies ==
    { [ids |-> <<1>>, updateData |-> EmptyBody],
      [ids |-> <<1, 2>>, updateData |-> [id |-> ClientId]],
      [ids |-> <<1, 2>>, updateData |-> [priority |-> "low"]],
      [ids |-> <<2, ClientId>>,
       updateData |-> [completed |-> TRUE, id |-> ClientId, createdAt |-> MaxClock + 1]],
      [ids |-> <<>>, updateData |-> [priority |-> "urgent"]],
      [ids |-> <<1, ClientId>>, updateData |-> [tags |-> TagArray(<< <<"y">> >>)]],
      [ids |-> <<0, 1>>] }

BulkDeleteBodies ==
    { [ids |-> <<1, ClientId>>],
      [ids |-> <<2, 1, 2>>],
      [ids |-> <<0, 1>>],
      [ids |-> <<>>] }

NoReq == [route |-> "none", id |-> 0, body |-> EmptyBody, now |-> 0]
NoLoc == [todo |-> None, before |-> None, v0 |-> 0, v1 |-> 0, total |-> 0]
NoPrev == [route |-> "none", id |-> 0, status |-> 0, data |-> None, before |-> None,
           v0 |-> 0, v1 |-> 0]

\* now is the clock reading of the validator, which createTodoSchema uses
Request(route, id, body) ==
    [route |-> route, id |-> id, body |-> body,
     now |-> IF route = "create" THEN clock ELSE 0]

\* the validators of a route, in the order the router runs them; each is the
\* set of violations its schema finds
Validators(r) ==
    CASE r.route = "create" -> << CreateViolations(r.body, r.now) >>
      [] r.route = "update" -> << ParamViolations(r.id), UpdateViolations(r.body) >>
      [] r.route \in {"toggle", "delete", "get"} -> << ParamViolations(r.id) >>
      [] r.route = "bulkUpdate" -> << BulkUpdateViolations(r.body) >>
      [] r.route = "bulkDelete" -> << IdsViolations(r.body) >>
      [] OTHER -> << >>

\* validate(): the middleware chain stops at the first validator that finds
\* violations and answers with its details; <<>> when every validator passed
RECURSIVE RunValidators(_)
RunValidators(vs) ==
    IF vs = <<>> THEN None
    ELSE IF Head(vs) # {} THEN Some(ValidationError(Head(vs)))
    ELSE RunValidators(Tail(vs))

Rejected(r) == RunValidators(Validators(r))

----------------------------------------------------------------------------
(* Initial state: the table after the migration and, optionally, the seeds *)

SeedRow(id, completed, priority) ==
    [id          |-> id,
     title       |-> <<"a">>,
     description |-> None,
     completed   |-> completed,
     priority    |-> priority,
     dueDate     |-> None,
     tags        |-> Some(JsonStringify(<< <<"x">> >>)),
     createdAt   |-> 0,
     updatedAt   |-> 0]

\* the process once startServer has passed the connection test and
\* app.listen: the server listens, nothing is shutting down
Serving ==
    [start |-> "ok", server |-> "listening", conns |-> 0, accepted |-> 0, timers |-> 0,
     pool |-> "open", exit |-> None, signals |-> <<>>]

SeedTables ==
    { {}, {SeedRow(1, FALSE, "high")}, {SeedRow(1, TRUE, "high"), SeedRow(2, FALSE, "high")} }

Init ==
    /\ table \in SeedTables
    /\ clock = StartClock
    /\ nextId = Cardinality(table)
    /\ created = IdSeq(Ids(table))
    /\ ver = [i \in AllIds |-> IF i \in Ids(table) THEN 1 ELSE 0]
    /\ pc = [p \in Procs |-> "idle"]
    /\ req = [p \in Procs |-> NoReq]
    /\ loc = [p \in Procs |-> NoLoc]
    /\ resp = [p \in Procs |-> NoResp]
    /\ nq = [p \in Procs |-> 0]
    /\ prev = [p \in Procs |-> NoPrev]
    /\ issued = 0
    /\ sent = [p \in Procs |-> <<>>]
    /\ life = Serving

----------------------------------------------------------------------------
(* Actions *)

\* the clock advances
Tick ==
    /\ clock < MaxClock
    /\ clock' = clock + 1
    /\ UNCHANGED <<table, nextId, created, ver, pc, req, loc, resp, nq, prev, issued, sent,
                   life>>

\* client p sends request r
Receive(p, r) ==
    /\ pc[p] = "idle"
    /\ issued < MaxReqs
    /\ issued' = issued + 1
    /\ req' = [req EXCEPT ![p] = r]
    /\ UNCHANGED prev

Done(p, route) == pc[p] = "done" /\ req[p].route = route

\* the response rs leaves after q store queries, serialized at clock reading
\* now
AnswerAt(p, rs, q, now) ==
    /\ pc' = [pc EXCEPT ![p] = "done"]
    /\ resp' = [resp EXCEPT ![p] = rs]
    /\ nq' = [nq EXCEPT ![p] = q]
    /\ sent' = [sent EXCEPT ![p] = Presented(rs, now)]
    /\ UNCHANGED life

Answer(p, rs, q) == AnswerAt(p, rs, q, clock)

\* the handler awaits its next query at label l
Await(p, l, q) ==
    /\ pc' = [pc EXCEPT ![p] = l]
    /\ nq' = [nq EXCEPT ![p] = q]
    /\ UNCHANGED <<resp, sent, life>>

Wrote(ids) == [i \in AllIds |-> IF i \in ids THEN ver[i] + 1 ELSE ver[i]]

\* POST /todos: validateBody(createTodoSchema), TodoService.createTodo
CreateTodo(p) ==
    \E b \in CreateBodies :
      LET r == Request("create", 0, b) IN
      /\ Receive(p, r)
      /\ UNCHANGED loc
      /\ IF Rejected(r) # None
         THEN /\ Answer(p, Rejected(r)[1], 0)
              /\ UNCHANGED <<table, clock, nextId, created, ver>>
         ELSE LET data == ProcessTags(CreateValue(b)) IN
              IF ~ModelValid(data, FALSE)
              THEN /\ Answer(p, ApiError(500, "Failed to create todo"), 0)
                   /\ UNCHANGED <<table, clock, nextId, created, ver>>
              ELSE /\ nextId < MaxIds
                   /\ \E t2 \in {clock, clock + 1} :
                        LET row == InsertedRow(BeforeInsert(data, nextId + 1, clock, t2)) IN
                        /\ t2 <= MaxClock
                        /\ clock' = t2
                        /\ nextId' = nextId + 1
                        /\ created' = Append(created, row.id)
                        /\ table' = table \cup {row}
                        /\ ver' = Wrote({row.id})
                        /\ AnswerAt(p, Success(201, Some(row)), 1, t2)

\* the first query of a single-entity handler: Todo.query().findById(id)
ReadById(p, r, l) ==
    /\ Receive(p, r)
    /\ UNCHANGED <<table, clock, nextId, created, ver>>
    /\ IF Rejected(r) # None
       THEN Answer(p, Rejected(r)[1], 0) /\ UNCHANGED loc
       ELSE IF FindById(r.id) = None
       THEN Answer(p, ApiError(404, "Todo not found"), 1) /\ UNCHANGED loc
       ELSE /\ Await(p, l, 1)
            /\ loc' = [loc EXCEPT ![p] = [NoLoc EXCEPT !.todo = FindById(r.id),
                                                       !.v0 = ver[r.id]]]

\* PUT /todos/:id: validateParams, validateBody(updateTodoSchema),
\* TodoService.updateTodo up to its first await
UpdateRead(p) ==
    \E u \in UpdateRequests : ReadById(p, Request("update", u[1], u[2]), "upd_patch")

\* the UPDATE of patchAndFetchById(id, json); none is the response when no
\* row was updated
PatchById(p, json, l, none) ==
    /\ UNCHANGED <<clock, nextId, created, req, prev, issued>>
    /\ IF DuplicateKey(table, {req[p].id}, json)
       THEN /\ Answer(p, ApiError(500, none.message), nq[p] + 1)
            /\ UNCHANGED <<table, ver, loc>>
       ELSE /\ table' = UpdateWhereIn(table, {req[p].id}, json)
            /\ ver' = Wrote({req[p].id} \cap Ids(table))
            /\ loc' = [loc EXCEPT ![p].before = FindById(req[p].id)]
            /\ IF req[p].id \in Ids(table)
               THEN Await(p, l, nq[p] + 1)
               ELSE Answer(p, none, nq[p] + 1)

\* the SELECT of patchAndFetchById; none is the response when no row is found
FetchById(p, none) ==
    /\ UNCHANGED <<table, clock, nextId, created, ver, req, prev, issued>>
    /\ loc' = [loc EXCEPT ![p].v1 = ver[req[p].id]]
    /\ IF FindById(req[p].id) = None
       THEN Answer(p, none, nq[p] + 1)
       ELSE Answer(p, Success(200, FindById(req[p].id)), nq[p] + 1)

\* TodoService.updateTodo: patchAndFetchById, the UPDATE
UpdatePatch(p) ==
    /\ pc[p] = "upd_patch"
    /\ LET data == ProcessTags(UpdateValue(req[p].body)) IN
       IF ~ModelValid(data, TRUE)
       THEN /\ Answer(p, ApiError(500, "Failed to update todo"), nq[p])
            /\ UNCHANGED <<table, clock, nextId, created, ver, req, loc, prev, issued>>
       ELSE PatchById(p, BeforeUpdate(data, clock), "upd_fetch", Success(200, None))

\* TodoService.updateTodo: patchAndFetchById, the SELECT; the service returns
\* what it got, undefined included
UpdateFetch(p) ==
    /\ pc[p] = "upd_fetch"
    /\ FetchById(p, Success(200, None))

\* PATCH /todos/:id/toggle: validateParams, TodoService.toggleTodoStatus up
\* to its first await
ToggleRead(p) ==
    \E id \in PathIds : ReadById(p, Request("toggle", id, EmptyBody), "tog_patch")

\* variant: the toggle marks the todo completed
TogglePatchDataSet(todo) == [completed |-> TRUE]

\* the patch of a toggle: the negation of the value read
TogglePatchData(todo) == [completed |-> ~todo.completed]

\* TodoService.toggleTodoStatus: patchAndFetchById, the UPDATE; reading
\* updatedTodo.completed of undefined throws, which the service turns into 500
TogglePatch(p) ==
    /\ pc[p] = "tog_patch"
    /\ PatchById(p, BeforeUpdate(TogglePatchData(loc[p].todo[1]), clock), "tog_fetch",
                 ApiError(500, "Failed to toggle todo status"))

\* TodoService.toggleTodoStatus: patchAndFetchById, the SELECT
ToggleFetch(p) ==
    /\ pc[p] = "tog_fetch"
    /\ FetchById(p, ApiError(500, "Failed to toggle todo status"))

\* DELETE /todos/:id: validateParams, TodoService.deleteTodo
DeleteTodo(p) ==
    \E id \in PathIds :
      LET r == Request("delete", id, EmptyBody) IN
      /\ Receive(p, r)
      /\ UNCHANGED <<clock, nextId, created, loc>>
      /\ IF Rejected(r) # None
         THEN Answer(p, Rejected(r)[1], 0) /\ UNCHANGED <<table, ver>>
         ELSE /\ table' = {x \in table : x.id # id}
              /\ ver' = Wrote({id} \cap Ids(table))
              /\ IF id \in Ids(table)
                 THEN Answer(p, Success(200, None), 1)
                 ELSE Answer(p, ApiError(404, "Todo not found"), 1)

\* PATCH /todos/bulk: validateBody(bulkUpdateSchema), TodoService.bulkUpdateTodos
BulkUpdateTodos(p) ==
    \E b \in BulkUpdateBodies :
      LET r == Request("bulkUpdate", 0, b) IN
      /\ Receive(p, r)
      /\ UNCHANGED <<clock, nextId, created, loc>>
      /\ IF Rejected(r) # None
         THEN Answer(p, Rejected(r)[1], 0) /\ UNCHANGED <<table, ver>>
         ELSE LET v    == BulkUpdateValue(b)
                  data == ProcessTags(v.updateData)
                  json == BeforeUpdate(data, clock)
                  ids  == SeqRange(v.ids)
              IN IF ~ModelValid(data, TRUE)
                 THEN /\ Answer(p, ApiError(500, "Failed to bulk update todos"), 0)
                      /\ UNCHANGED <<table, ver>>
                 ELSE IF DuplicateKey(table, ids, json)
                 THEN /\ Answer(p, ApiError(500, "Failed to bulk update todos"), 1)
                      /\ UNCHANGED <<table, ver>>
                 ELSE /\ table' = UpdateWhereIn(table, ids, json)
                      /\ ver' = Wrote(ids \cap Ids(table))
                      /\ Answer(p, SuccessCount(Cardinality({x \in table : x.id \in ids})), 1)

\* GET /todos/:id: validateParams, TodoService.getTodoById
GetTodoById(p) ==
    \E id \in PathIds :
      LET r == Request("get", id, EmptyBody) IN
      /\ Receive(p, r)
      /\ UNCHANGED <<table, clock, nextId, created, ver, loc>>
      /\ IF Rejected(r) # None THEN Answer(p, Rejected(r)[1], 0)
         ELSE IF FindById(id) = None THEN Answer(p, ApiError(404, "Todo not found"), 1)
         ELSE Answer(p, Success(200, FindById(id)), 1)

\* DELETE /todos/bulk: validateBody(bulkDeleteSchema), TodoService.bulkDeleteTodos
BulkDeleteTodos(p) ==
    \E b \in BulkDeleteBodies :
      LET r == Request("bulkDelete", 0, b) IN
      /\ Receive(p, r)
      /\ UNCHANGED <<clock, nextId, created, loc>>
      /\ IF Rejected(r) # None
         THEN Answer(p, Rejected(r)[1], 0) /\ UNCHANGED <<table, ver>>
         ELSE LET ids == SeqRange(b.ids) IN
              /\ table' = DeleteWhereIn(table, ids)
              /\ ver' = Wrote(ids \cap Ids(table))
              /\ Answer(p, SuccessCount(Affected(table, ids)), 1)

\* the client has its response; its next request starts from a fresh handler
Finish(p) ==
    /\ pc[p] = "done"
    /\ pc' = [pc EXCEPT ![p] = "idle"]
    /\ prev' = [prev EXCEPT ![p] =
                  IF req[p].route = "toggle" /\ resp[p].status = 200
                  THEN [route |-> req[p].route, id |-> req[p].id, status |-> resp[p].status,
                        data |-> resp[p].data, before |-> loc[p].before,
                        v0 |-> loc[p].v0, v1 |-> loc[p].v1]
                  ELSE NoPrev]
    /\ req' = [req EXCEPT ![p] = NoReq]
    /\ resp' = [resp EXCEPT ![p] = NoResp]
    /\ sent' = [sent EXCEPT ![p] = <<>>]
    /\ loc' = [loc EXCEPT ![p] = NoLoc]
    /\ nq' = [nq EXCEPT ![p] = 0]
    /\ UNCHANGED <<table, clock, nextId, created, ver, issued, life>>

Next ==
    \/ Tick
    \/ \E p \in Procs :
         \/ CreateTodo(p)
         \/ UpdateRead(p) \/ UpdatePatch(p) \/ UpdateFetch(p)
         \/ ToggleRead(p) \/ TogglePatch(p) \/ ToggleFetch(p)
         \/ DeleteTodo(p)
         \/ BulkUpdateTodos(p)
         \/ GetTodoById(p)
         \/ BulkDeleteTodos(p)
         \/ Finish(p)

Spec == Init /\ [][Next]_vars

----------------------------------------------------------------------------
(* GET /todos: queryParamsSchema *)

Statuses   == {"completed", "pending", "all"}
SortFields == {"createdAt", "updatedAt", "dueDate", "priority", "title"}
SortOrders == {"asc", "desc"}
QueryKeys  == {"page", "limit", "status", "priority", "sortBy", "sortOrder", "search", "tag"}

\* variant: the upper bound is exclusive
NumberViolationsBelow(q, k, lo, hi) ==
    IF ~Has(q, k) THEN {}
    ELSE (IF q[k] < lo THEN {Viol(k, -1, "number.min")} ELSE {})
         \cup (IF hi > 0 /\ q[k] >= hi THEN {Viol(k, -1, "number.max")} ELSE {})

\* a number parameter with a lower bound and, when hi > 0, an upper bound
NumberViolations(q, k, lo, hi) ==
    IF ~Has(q, k) THEN {}
    ELSE (IF q[k] < lo THEN {Viol(k, -1, "number.min")} ELSE {})
         \cup (IF hi > 0 /\ q[k] > hi THEN {Viol(k, -1, "number.max")} ELSE {})

EnumViolations(q, k, values) ==
    IF Has(q, k) /\ q[k] \notin values THEN {Viol(k, -1, "any.only")} ELSE {}

\* a trimmed string parameter: the empty string is not allowed
TextViolations(q, k, max) ==
    IF ~Has(q, k) THEN {}
    ELSE IF Trim(q[k]) = <<>> THEN {Viol(k, -1, "string.empty")}
    ELSE IF Len(Trim(q[k])) > max THEN {Viol(k, -1, "string.max")}
    ELSE {}

QueryViolations(q) ==
    NumberViolations(q, "page", 1, 0) \cup NumberViolations(q, "limit", 1, LimitMax)
    \cup EnumViolations(q, "status", Statuses) \cup EnumViolations(q, "priority", Priorities)
    \cup EnumViolations(q, "sortBy", SortFields) \cup EnumViolations(q, "sortOrder", SortOrders)
    \cup TextViolations(q, "search", SearchMax) \cup TextViolations(q, "tag", TagMax)

Default(q, k, v) == IF Has(q, k) THEN q ELSE With(q, k, v)

\* the value of a query without violations: trimmed strings and the defaults
QueryValue(q) ==
    LET s == StripUnknown(q, QueryKeys)
        t == [k \in DOMAIN s |-> IF k \in {"search", "tag"} THEN Trim(s[k]) ELSE s[k]]
    IN Default(Default(Default(Default(Default(t, "page", 1), "limit", DefaultLimit),
                               "status", "all"), "sortBy", "createdAt"), "sortOrder", "desc")

----------------------------------------------------------------------------
(* The store's LIKE and ORDER BY *)

\* s LIKE pat: % matches any sequence, _ any one character, \ escapes
RECURSIVE Like(_, _)
Like(s, pat) ==
    IF pat = <<>> THEN s = <<>>
    ELSE IF Head(pat) = "%"
         THEN Like(s, Tail(pat)) \/ (s # <<>> /\ Like(Tail(s), pat))
    ELSE IF Head(pat) = "_"
         THEN s # <<>> /\ Like(Tail(s), Tail(pat))
    ELSE IF Head(pat) = "\\" /\ Len(pat) >= 2
         THEN s # <<>> /\ Head(s) = pat[2] /\ Like(Tail(s), Tail(Tail(pat)))
    ELSE s # <<>> /\ Head(s) = Head(pat) /\ Like(Tail(s), Tail(pat))

\* the case-insensitive collation of the text columns
Fold(s) == [i \in 1..Len(s) |-> CASE s[i] = "A" -> "a" [] s[i] = "B" -> "b" [] OTHER -> s[i]]

CharRank(c) ==
    CASE c = " " -> 0 [] c = "a" -> 1 [] c = "b" -> 2 [] c = "x" -> 3 [] c = "y" -> 4
      [] OTHER -> 5

RECURSIVE TextLess(_, _)
TextLess(a, b) ==
    IF b = <<>> THEN FALSE
    ELSE IF a = <<>> THEN TRUE
    ELSE IF CharRank(Head(a)) # CharRank(Head(b)) THEN CharRank(Head(a)) < CharRank(Head(b))
    ELSE TextLess(Tail(a), Tail(b))

\* the index of a value of the enum column priority
PriorityIndex(v) == CASE v = "low" -> 1 [] v = "medium" -> 2 [] OTHER -> 3

\* row a sorts strictly before row b in ascending order of the column
KeyLess(a, b, sortBy) ==
    CASE sortBy = "priority" -> PriorityIndex(a.priority) < PriorityIndex(b.priority)
      [] sortBy = "title" -> TextLess(Fold(a.title), Fold(b.title))
      [] sortBy = "dueDate" ->
            \/ a.dueDate = None /\ b.dueDate # None
            \/ a.dueDate # None /\ b.dueDate # None /\ a.dueDate[1] < b.dueDate[1]
      [] OTHER -> a[sortBy] < b[sortBy]

Perms(S) ==
    {f \in [1..Cardinality(S) -> S] : \A i, j \in 1..Cardinality(S) : f[i] = f[j] => i = j}

\* ORDER BY sortBy sortOrder: every order of the rows that respects the column;
\* the store is free in the order of rows with equal values
SortedOrders(S, sortBy, sortOrder) ==
    {o \in Perms(S) :
        \A i, j \in 1..Cardinality(S) :
            i < j => IF sortOrder = "asc" THEN ~KeyLess(o[j], o[i], sortBy)
                                           ELSE ~KeyLess(o[i], o[j], sortBy)}

\* LIMIT limit OFFSET offset
Window(o, offset, limit) ==
    SubSeq(o, offset + 1, IF offset + limit < Len(o) THEN offset + limit ELSE Len(o))

----------------------------------------------------------------------------
(* TodoService.getAllTodos *)

\* variant: the priority clause is joined with orWhere
MatchesOrPriority(r, q) ==
    LET st == \/ q.status = "completed" /\ r.completed
              \/ q.status = "pending" /\ ~r.completed
        pr == Has(q, "priority") /\ r.priority = q.priority
    IN IF q.status = "all" THEN Has(q, "priority") => pr
       ELSE IF Has(q, "priority") THEN st \/ pr
       ELSE st

\* the where clauses built from the options
Matches(r, q) ==
    /\ q.status = "completed" => r.completed
    /\ q.status = "pending" => ~r.completed
    /\ Has(q, "priority") => r.priority = q.priority
    /\ (Has(q, "search") /\ q.search # <<>>) =>
          LET pat == <<"%">> \o Fold(q.search) \o <<"%">> IN
          \/ Like(Fold(r.title), pat)
          \/ r.description # None /\ Like(Fold(r.description[1]), pat)
    /\ (Has(q, "tag") /\ q.tag # <<>>) =>
          /\ r.tags # None
          /\ Like(r.tags[1], <<"%", "\"">> \o q.tag \o <<"\"", "%">>)

Matching(t, q) == {r \in t : Matches(r, q)}

\* variant: the offset counts the requested page too
OffsetFromPage(page, limit) == page * limit

Offset(page, limit) == (page - 1) * limit

\* Math.ceil(total / limit)
TotalPages(total, limit) == (total + limit - 1) \div limit

Pagination(page, limit, total) ==
    [currentPage |-> page,
     totalPages  |-> TotalPages(total, limit),
     totalItems  |-> total,
     itemsPerPage |-> limit,
     hasNextPage |-> page < TotalPages(total, limit),
     hasPrevPage |-> page > 1]

\* the success envelope of the list
ListSuccess(rows, q, total) ==
    [status |-> 200, code |-> "", message |-> "", data |-> None, details |-> {}, count |-> 0,
     rows |-> rows,
     pagination |-> Pagination(q.page, q.limit, total),
     filters |-> [status |-> q.status,
                  priority |-> IF Has(q, "priority") THEN Some(q.priority) ELSE None,
                  search |-> IF Has(q, "search") THEN Some(q.search) ELSE None,
                  tag |-> IF Has(q, "tag") THEN Some(q.tag) ELSE None],
     sorting |-> [sortBy |-> q.sortBy, sortOrder |-> q.sortOrder]]

\* the history of a client that pages through one query: the query without
\* its page and the ids of the pages 1, 2, ... received so far
Scan(q) == [route |-> "list", query |-> q, pages |-> <<>>, total |-> 0, totalPages |-> 0]

\* GET /todos: validateQuery(queryParamsSchema), TodoService.getAllTodos up to
\* the count query
ListCount(p) ==
    /\ prev[p].route = "list"
    /\ \E page \in {<<>>} \cup {<<n>> : n \in 0..MaxPage} :
         LET q == IF page = <<>> THEN prev[p].query ELSE With(prev[p].query, "page", page[1])
             r == [route |-> "list", id |-> 0, body |-> q, now |-> 0]
         IN /\ Receive(p, r)
            /\ UNCHANGED <<table, clock, nextId, created, ver>>
            /\ IF QueryViolations(q) # {}
               THEN Answer(p, ValidationError(QueryViolations(q)), 0) /\ UNCHANGED loc
               ELSE /\ Await(p, "list_page", 1)
                    /\ loc' = [loc EXCEPT ![p] =
                                 [NoLoc EXCEPT
                                    !.total = Cardinality(Matching(table, QueryValue(q)))]]

\* TodoService.getAllTodos: the page query and the result
ListPage(p) ==
    /\ pc[p] = "list_page"
    /\ UNCHANGED <<table, clock, nextId, created, ver, req, loc, prev, issued>>
    /\ LET q == QueryValue(req[p].body) IN
       \E o \in SortedOrders(Matching(table, q), q.sortBy, q.sortOrder) :
          Answer(p, ListSuccess(Window(o, Offset(q.page, q.limit), q.limit), q, loc[p].total),
                 nq[p] + 1)

\* the client has its page; a page that continues its scan is added to it, any
\* other response starts the scan again
FinishList(p) ==
    /\ Done(p, "list")
    /\ pc' = [pc EXCEPT ![p] = "idle"]
    /\ prev' = [prev EXCEPT ![p] =
                  IF resp[p].status = 200
                     /\ resp[p].pagination.currentPage = Len(prev[p].pages) + 1
                  THEN [prev[p] EXCEPT
                          !.pages = Append(@, [i \in 1..Len(resp[p].rows) |-> resp[p].rows[i].id]),
                          !.total = resp[p].pagination.totalItems,
                          !.totalPages = resp[p].pagination.totalPages]
                  ELSE Scan(prev[p].query)]
    /\ req' = [req EXCEPT ![p] = NoReq]
    /\ resp' = [resp EXCEPT ![p] = NoResp]
    /\ sent' = [sent EXCEPT ![p] = <<>>]
    /\ loc' = [loc EXCEPT ![p] = NoLoc]
    /\ nq' = [nq EXCEPT ![p] = 0]
    /\ UNCHANGED <<table, clock, nextId, created, ver, issued, life>>

NextList == \E p \in Procs : ListCount(p) \/ ListPage(p) \/ FinishList(p)

ListRow(id, title, completed, priority, createdAt, tags) ==
    [id          |-> id,
     title       |-> title,
     description |-> None,
     completed   |-> completed,
     priority    |-> priority,
     dueDate     |-> None,
     tags        |-> tags,
     createdAt   |-> createdAt,
     updatedAt   |-> createdAt]

\* rows as the seeds leave them: equal timestamps, repeated priorities
ListTables ==
    SUBSET { ListRow(1, <<"a">>, FALSE, "high", 0, None),
             ListRow(2, <<"b">>, FALSE, "high", 0, None),
             ListRow(3, <<"a">>, TRUE, "low", 0, None) }

ListQueries ==
    {[limit |-> l, sortBy |-> s, sortOrder |-> d] :
        l \in {1, 2}, s \in {"createdAt", "priority", "title"}, d \in SortOrders}
    \cup { EmptyBody,
           [status |-> "pending", limit |-> 1],
           [status |-> "completed", sortBy |-> "updatedAt"],
           [priority |-> "high", limit |-> 1, sortBy |-> "dueDate"],
           [status |-> "all"],
           [status |-> "pending", priority |-> "high"],
           [status |-> "completed", priority |-> "high"],
           [limit |-> LimitMax],
           [limit |-> LimitMax + 1],
           [limit |-> 0, sortBy |-> "id"] }

InitRead(tables, queries) ==
    /\ table \in tables
    /\ clock = StartClock
    /\ nextId = Cardinality(table)
    /\ created = IdSeq(Ids(table))
    /\ ver = [i \in AllIds |-> IF i \in Ids(table) THEN 1 ELSE 0]
    /\ pc = [p \in Procs |-> "idle"]
    /\ req = [p \in Procs |-> NoReq]
    /\ loc = [p \in Procs |-> NoLoc]
    /\ resp = [p \in Procs |-> NoResp]
    /\ nq = [p \in Procs |-> 0]
    /\ \E q \in queries : prev = [p \in Procs |-> Scan(q)]
    /\ issued = 0
    /\ sent = [p \in Procs |-> <<>>]
    /\ life = Serving

InitList == InitRead(ListTables, ListQueries)

\* clients page through a table that nobody writes
SpecList == InitList /\ [][NextList]_vars

\* the tag arrays of the rows and the tag parameters of the requests
TagLists ==
    { <<>>, << <<"x">> >>, << <<"y">> >>, << <<"x", "y">> >>, << <<"x">>, <<"y">> >>,
      << <<"y", "\"", "x">> >> }

TagTexts ==
    { <<"x">>, <<"y">>, <<" ", "x", " ">>, <<"x", "y">>, <<"_">>, <<"%">>, <<"x", "%">>,
      <<"\"">>, <<" ">> }

TagTables ==
    { {ListRow(1, <<"a">>, FALSE, "high", 0, None)} }
    \cup { {ListRow(1, <<"a">>, FALSE, "high", 0, Some(JsonStringify(a)))} : a \in TagLists }
    \cup { {ListRow(1, <<"a">>, FALSE, "high", 0, Some(JsonStringify(<< <<"x">> >>))),
            ListRow(2, <<"b">>, FALSE, "low", 0, Some(JsonStringify(<< <<"y">> >>)))} }

TagQueries == {[tag |-> t] : t \in TagTexts}

InitTag == InitRead(TagTables, TagQueries)

\* clients list by tag over tables of tagged rows
SpecTag == InitTag /\ [][NextList]_vars

\* the titles and descriptions of the rows and the search parameters
SearchTables ==
    SUBSET { ListRow(1, <<"a", "B">>, FALSE, "high", 0, None),
             [ListRow(2, <<"x">>, FALSE, "low", 0, None) EXCEPT !.description = Some(<<"a", "b">>)],
             [ListRow(3, <<"y">>, TRUE, "high", 0, None) EXCEPT !.description = Some(<<"a", "b">>)] }

SearchTexts ==
    { <<"a", "b">>, <<"A", "B">>, <<" ", "b", " ">>, <<"b", "a">>, <<"y">>, <<"_">>, <<"%">>,
      <<" ">> }

SearchQueries ==
    {[search |-> t] : t \in SearchTexts}
    \cup { [search |-> <<"a", "b">>, status |-> "pending"],
           [search |-> <<"a", "b">>, priority |-> "high"],
           [search |-> <<"a", "b">>, status |-> "completed", priority |-> "low"] }

InitSearch == InitRead(SearchTables, SearchQueries)

\* clients search over tables of rows with titles and descriptions
SpecSearch == InitSearch /\ [][NextList]_vars

\* list requests at and beyond the limits of queryParamsSchema
QueryCases ==
    { EmptyBody,
      [limit |-> LimitMax],
      [limit |-> LimitMax + 1],
      [limit |-> 0],
      [limit |-> 1, sortBy |-> "title", sortOrder |-> "asc"],
      [status |-> "pending", priority |-> "high", sortBy |-> "priority", limit |-> 2],
      [status |-> "done"],
      [priority |-> "urgent"],
      [sortBy |-> "id"],
      [sortOrder |-> "up"],
      [limit |-> LimitMax + 1, status |-> "done"],
      [search |-> Rep("a", SearchMax)],
      [search |-> Rep("a", SearchMax + 1)],
      [tag |-> Rep("x", TagMax + 1)],
      [tag |-> <<" ">>],
      [search |-> <<"a">>, tag |-> <<"x">>] }

InitQuery == InitRead(ListTables, QueryCases)

\* clients send list requests with parameters inside and outside the schema
SpecQuery == InitQuery /\ [][NextList]_vars

----------------------------------------------------------------------------
(* GET /todos/stats and GET /todos/due-soon *)

\* the clock readings of one day
Day == 10

DaysMax     == 365
DefaultDays == 7

\* dueSoonQuerySchema
DaysViolations(q) == NumberViolations(q, "days", 1, DaysMax)

DaysValue(q) == Default(StripUnknown(q, {"days"}), "days", DefaultDays)

\* variant: the comparison with the future date is strict
DueSoonMatchesBefore(r, now, days) ==
    /\ r.dueDate # None /\ r.dueDate[1] < now + days * Day
    /\ ~r.completed

\* Todo.findDueSoon: the where clauses; a NULL dueDate compares as unknown
DueSoonMatches(r, now, days) ==
    /\ r.dueDate # None /\ r.dueDate[1] <= now + days * Day
    /\ ~r.completed

\* variant: the overdue count leaves out the clause on completed
OverdueMatchesAny(r, now) == r.dueDate # None /\ r.dueDate[1] < now

\* Todo.getStatistics: the where clauses of the overdue count
OverdueMatches(r, now) ==
    /\ r.dueDate # None /\ r.dueDate[1] < now
    /\ ~r.completed

\* the success envelope of due-soon
DueSoonSuccess(rows, days) ==
    [status |-> 200, code |-> "", message |-> "", data |-> None, details |-> {}, count |-> 0,
     rows |-> rows,
     meta |-> [days |-> days, count |-> Len(rows)]]

\* the local variables of a handler that only reads: the counts it has so
\* far, the versions of the rows at its first and at its last query, and the
\* clock reading it compares dueDate with
ReadLoc(total, completed, pending, ver0, now) ==
    [total |-> total, completed |-> completed, pending |-> pending,
     ver0 |-> ver0, ver1 |-> ver, now |-> now]

\* client p sends a request that only reads
ReceiveRead(p, r) ==
    /\ pc[p] = "idle"
    /\ req' = [req EXCEPT ![p] = r]
    /\ UNCHANGED <<table, clock, nextId, created, ver, prev, issued>>

\* GET /todos/stats: Todo.getStatistics, the count of all rows
StatsTotal(p) ==
    /\ ReceiveRead(p, Request("stats", 0, EmptyBody))
    /\ Await(p, "stats_completed", 1)
    /\ loc' = [loc EXCEPT ![p] = ReadLoc(Cardinality(table), 0, 0, ver, 0)]

\* variant: the second count has no where clause
StatsCompletedAll(p) ==
    /\ pc[p] = "stats_completed"
    /\ Await(p, "stats_pending", nq[p] + 1)
    /\ loc' = [loc EXCEPT ![p] = ReadLoc(@.total, Cardinality(table), 0, @.ver0, 0)]
    /\ UNCHANGED <<table, clock, nextId, created, ver, req, prev, issued>>

\* Todo.getStatistics: the count of the completed rows
StatsCompleted(p) ==
    /\ pc[p] = "stats_completed"
    /\ Await(p, "stats_pending", nq[p] + 1)
    /\ loc' = [loc EXCEPT ![p] =
                 ReadLoc(@.total, Cardinality({r \in table : r.completed}), 0, @.ver0, 0)]
    /\ UNCHANGED <<table, clock, nextId, created, ver, req, prev, issued>>

\* Todo.getStatistics: the count of the pending rows
StatsPending(p) ==
    /\ pc[p] = "stats_pending"
    /\ Await(p, "stats_overdue", nq[p] + 1)
    /\ loc' = [loc EXCEPT ![p] =
                 ReadLoc(@.total, @.completed, Cardinality({r \in table : ~r.completed}),
                         @.ver0, 0)]
    /\ UNCHANGED <<table, clock, nextId, created, ver, req, prev, issued>>

\* Todo.getStatistics: the count of the overdue rows, and the response
StatsOverdue(p) ==
    /\ pc[p] = "stats_overdue"
    /\ loc' = [loc EXCEPT ![p] = ReadLoc(@.total, @.completed, @.pending, @.ver0, clock)]
    /\ Answer(p, Success(200, Some([total     |-> loc[p].total,
                                    completed |-> loc[p].completed,
                                    pending   |-> loc[p].pending,
                                    overdue   |-> Cardinality({r \in table :
                                                     OverdueMatches(r, clock)})])),
              nq[p] + 1)
    /\ UNCHANGED <<table, clock, nextId, created, ver, req, prev, issued>>

\* the days parameters of the due-soon requests
DaysCases ==
    { EmptyBody, [days |-> 0], [days |-> 1], [days |-> 3], [days |-> DaysMax],
      [days |-> DaysMax + 1] }

\* GET /todos/due-soon: validateQuery(dueSoonQuerySchema), getTodosDueSoon,
\* Todo.findDueSoon
GetTodosDueSoon(p) ==
    \E q \in DaysCases :
      /\ ReceiveRead(p, [route |-> "dueSoon", id |-> 0, body |-> q, now |-> 0])
      /\ IF DaysViolations(q) # {}
         THEN Answer(p, ValidationError(DaysViolations(q)), 0) /\ UNCHANGED loc
         ELSE LET days == DaysValue(q).days IN
              /\ loc' = [loc EXCEPT ![p] = ReadLoc(0, 0, 0, ver, clock)]
              /\ \E o \in SortedOrders({r \in table : DueSoonMatches(r, clock, days)},
                                       "dueDate", "asc") :
                    Answer(p, DueSoonSuccess(o, days), 1)

NextStats ==
    \/ Tick
    \/ \E p \in Procs :
         \/ StatsTotal(p) \/ StatsCompleted(p) \/ StatsPending(p) \/ StatsOverdue(p)
         \/ GetTodosDueSoon(p)
         \/ ToggleRead(p) \/ TogglePatch(p) \/ ToggleFetch(p)
         \/ CreateTodo(p)
         \/ Finish(p)

StatRow(id, completed, dueDate) ==
    [ListRow(id, <<"a">>, completed, "medium", 0, None) EXCEPT !.dueDate = dueDate]

\* rows due before, at and after the service starts, rows without a due date
StatTables ==
    { {},
      { StatRow(1, FALSE, Some(StartClock + 2 * Day)),
        StatRow(2, FALSE, Some(StartClock + 4 * Day)),
        StatRow(3, TRUE, Some(StartClock + Day)) },
      { StatRow(1, FALSE, Some(StartClock)),
        StatRow(2, FALSE, None),
        StatRow(3, FALSE, Some(StartClock + 3 * Day + 1)) },
      { StatRow(1, TRUE, Some(0)),
        StatRow(2, FALSE, Some(0)),
        StatRow(3, FALSE, Some(StartClock + 3 * Day)) } }

InitStats ==
    /\ table \in StatTables
    /\ clock = StartClock
    /\ nextId = Cardinality(table)
    /\ created = IdSeq(Ids(table))
    /\ ver = [i \in AllIds |-> IF i \in Ids(table) THEN 1 ELSE 0]
    /\ pc = [p \in Procs |-> "idle"]
    /\ req = [p \in Procs |-> NoReq]
    /\ loc = [p \in Procs |-> NoLoc]
    /\ resp = [p \in Procs |-> NoResp]
    /\ nq = [p \in Procs |-> 0]
    /\ prev = [p \in Procs |-> NoPrev]
    /\ issued = 0
    /\ sent = [p \in Procs |-> <<>>]
    /\ life = Serving

\* clients ask for the statistics and the todos due soon while todos are
\* toggled and created
SpecStats == InitStats /\ [][NextStats]_vars

----------------------------------------------------------------------------
(* The list next to requests that write *)

NextMixed ==
    \E p \in Procs :
      \/ ListCount(p) \/ ListPage(p) \/ FinishList(p)
      \/ CreateTodo(p)
      \/ UpdateRead(p) \/ UpdatePatch(p) \/ UpdateFetch(p)
      \/ ToggleRead(p) \/ TogglePatch(p) \/ ToggleFetch(p)
      \/ DeleteTodo(p)
      \/ Finish(p)

InitMixed == InitRead(SeedTables, {EmptyBody, [status |-> "pending"], [limit |-> 1]})

\* clients list the todos while other clients create, update, toggle and
\* delete them
SpecMixed == InitMixed /\ [][NextMixed]_vars

----------------------------------------------------------------------------
(* Failures of the store *)

\* the errors the driver raises: the store cannot be reached, or a statement
\* would leave two rows with one key
StoreErrors == {"ECONNREFUSED", "ENOTFOUND", "ER_DUP_ENTRY"}

\* an error object; statusCode 0 stands for an error without a status
Error(name, code, errno, statusCode, message) ==
    [name |-> name, code |-> code, errno |-> errno, statusCode |-> statusCode,
     message |-> message]

StoreError(e) == Error("Error", e, IF e = "ER_DUP_ENTRY" THEN 1062 ELSE 0, 0, e)

FailureMessage(route) ==
    CASE route = "create" -> "Failed to create todo"
      [] route = "list" -> "Failed to fetch todos"
      [] route = "get" -> "Failed to fetch todo"
      [] route = "update" -> "Failed to update todo"
      [] route = "delete" -> "Failed to delete todo"
      [] route = "toggle" -> "Failed to toggle todo status"
      [] route = "stats" -> "Failed to fetch todo statistics"
      [] route = "dueSoon" -> "Failed to fetch todos due soon"
      [] route = "bulkUpdate" -> "Failed to bulk update todos"
      [] OTHER -> "Failed to bulk delete todos"

\* the catch block of the service method of a route: an error of the store
\* is no ApiError, so it is replaced
Caught(route, err) == Error("Error", "", 0, 500, FailureMessage(route))

\* handleError: each test that matches overrides the ones before it
HandleError(err) ==
    IF err.code \in {"ECONNREFUSED", "ENOTFOUND"}
    THEN Error("Error", "", 0, 503, "Database connection failed")
    ELSE IF err.code = "23000" \/ err.errno = 1062
    THEN Error("Error", "", 0, 400, "Duplicate field value entered")
    ELSE IF err.name = "ValidationError"
    THEN Error("Error", "", 0, 400, "Validation Error")
    ELSE err

\* errorHandler: the response for an error that reaches the middleware
ErrorHandler(err) ==
    LET error == HandleError(err) IN
    IF error.statusCode = 0 THEN ApiError(500, "Something went wrong")
    ELSE ApiError(error.statusCode, error.message)

\* one request of every route that passes validation
FailRequests ==
    { [route |-> "create", id |-> 0, body |-> [title |-> <<"a">>], now |-> StartClock],
      [route |-> "list", id |-> 0, body |-> EmptyBody, now |-> 0],
      [route |-> "get", id |-> 1, body |-> EmptyBody, now |-> 0],
      [route |-> "update", id |-> 1, body |-> [completed |-> TRUE], now |-> 0],
      [route |-> "delete", id |-> 1, body |-> EmptyBody, now |-> 0],
      [route |-> "toggle", id |-> 1, body |-> EmptyBody, now |-> 0],
      [route |-> "stats", id |-> 0, body |-> EmptyBody, now |-> 0],
      [route |-> "dueSoon", id |-> 0, body |-> EmptyBody, now |-> 0],
      [route |-> "bulkUpdate", id |-> 0,
       body |-> [ids |-> <<1>>, updateData |-> [priority |-> "low"]], now |-> 0],
      [route |-> "bulkDelete", id |-> 0, body |-> [ids |-> <<1>>], now |-> 0] }

\* the errors the first statement of a route can end with: only an INSERT
\* can find its key taken
ErrorsOf(route) ==
    IF route = "create" THEN StoreErrors ELSE StoreErrors \ {"ER_DUP_ENTRY"}

\* client p sends a request and the first query of the handler fails with e
FailFirst(p, e) ==
    \E r \in FailRequests :
      /\ e \in ErrorsOf(r.route)
      /\ Rejected(r) = None
      /\ Receive(p, r)
      /\ Answer(p, ErrorHandler(Caught(r.route, StoreError(e))), 1)
      /\ UNCHANGED <<table, clock, nextId, created, ver, loc>>

\* the positions at which a handler awaits a query after its first one
Awaiting ==
    {"upd_patch", "upd_fetch", "tog_patch", "tog_fetch", "list_page",
     "stats_completed", "stats_pending", "stats_overdue"}

\* a later query of the handler of client p fails with e
FailLater(p, e) ==
    /\ pc[p] \in Awaiting
    /\ e \in ErrorsOf(req[p].route)
    /\ Answer(p, ErrorHandler(Caught(req[p].route, StoreError(e))), nq[p] + 1)
    /\ UNCHANGED <<table, clock, nextId, created, ver, req, loc, prev, issued>>

NextFail ==
    \E p \in Procs :
      \/ \E e \in StoreErrors : FailFirst(p, e) \/ FailLater(p, e)
      \/ UpdateRead(p) \/ UpdatePatch(p) \/ UpdateFetch(p)
      \/ ToggleRead(p) \/ TogglePatch(p) \/ ToggleFetch(p)
      \/ StatsTotal(p) \/ StatsCompleted(p) \/ StatsPending(p) \/ StatsOverdue(p)
      \/ ListCount(p) \/ ListPage(p)
      \/ Finish(p)

\* the first client pages through the list, the others send single requests
InitFail ==
    /\ table \in SeedTables
    /\ clock = StartClock
    /\ nextId = Cardinality(table)
    /\ created = IdSeq(Ids(table))
    /\ ver = [i \in AllIds |-> IF i \in Ids(table) THEN 1 ELSE 0]
    /\ pc = [p \in Procs |-> "idle"]
    /\ req = [p \in Procs |-> NoReq]
    /\ loc = [p \in Procs |-> NoLoc]
    /\ resp = [p \in Procs |-> NoResp]
    /\ nq = [p \in Procs |-> 0]
    /\ prev = [p \in Procs |-> IF p = 1 THEN Scan(EmptyBody) ELSE NoPrev]
    /\ issued = 0
    /\ sent = [p \in Procs |-> <<>>]
    /\ life = Serving

\* requests are served while queries of the store fail
SpecFail == InitFail /\ [][NextFail]_vars

----------------------------------------------------------------------------
(* The process: startServer, gracefulShutdown *)

\* the variables of the todo operations
service == <<table, clock, nextId, created, ver, pc, req, loc, resp, nq, prev, issued, sent>>

\* the process after the modules are loaded: the handlers of the signals
\* are registered, startServer awaits testConnection, app.server is not set
Booting ==
    [start |-> "testing", server |-> "none", conns |-> 0, accepted |-> 0, timers |-> 0,
     pool |-> "open", exit |-> None, signals |-> <<>>]

Exited == life.exit # None

\* process.exit(code)
Exit(code) == [life EXCEPT !.exit = Some(code)]

\* variant: startServer listens whatever testConnection returned
TestConnectionIgnored ==
    /\ ~Exited /\ life.start = "testing"
    /\ life' = [life EXCEPT !.start = "failed", !.server = "listening"]
    /\ UNCHANGED service

\* testConnection returns false (db.raw threw): startServer exits
TestConnectionFails ==
    /\ ~Exited /\ life.start = "testing"
    /\ life' = [Exit(1) EXCEPT !.start = "failed"]
    /\ UNCHANGED service

\* testConnection returns true and app.listen binds the port
StartServerListens ==
    /\ ~Exited /\ life.start = "testing"
    /\ life' = [life EXCEPT !.start = "ok", !.server = "listening"]
    /\ UNCHANGED service

\* testConnection returns true and app.listen fails (EACCES, EADDRINUSE):
\* the error handler of the server exits
StartServerListenError ==
    /\ ~Exited /\ life.start = "testing"
    /\ life' = [Exit(1) EXCEPT !.start = "ok"]
    /\ UNCHANGED service

\* the listening server accepts a connection
Accept ==
    /\ ~Exited /\ life.server = "listening"
    /\ life.accepted < MaxConns
    /\ life' = [life EXCEPT !.conns = @ + 1, !.accepted = @ + 1]
    /\ UNCHANGED service

\* an accepted connection ends
EndConnection ==
    /\ ~Exited /\ life.conns > 0
    /\ life' = [life EXCEPT !.conns = @ - 1]
    /\ UNCHANGED service

\* the events whose handlers call gracefulShutdown
Signals == {"SIGTERM", "SIGINT", "uncaughtException", "unhandledRejection"}

\* gracefulShutdown(signal) exits at once when app.server is not set, and
\* otherwise asks the server to close and starts the timer of the forced exit
GracefulShutdown(signal) ==
    /\ ~Exited /\ Len(life.signals) < MaxTriggers
    /\ life' = IF life.server = "none"
               THEN [Exit(0) EXCEPT !.signals = Append(@, signal)]
               ELSE [life EXCEPT !.signals = Append(@, signal), !.timers = @ + 1,
                                 !.server = IF @ = "listening" THEN "closing" ELSE @]
    /\ UNCHANGED service

\* the server has stopped listening and its last connection has ended: the
\* callbacks of server.close run and call closeConnection
ServerClosed ==
    /\ ~Exited /\ life.server = "closing" /\ life.conns = 0
    /\ life' = [life EXCEPT !.server = "closed", !.pool = "destroying"]
    /\ UNCHANGED service

\* db.destroy() settles (an error is caught and logged): the callback exits
CloseConnectionDone ==
    /\ ~Exited /\ life.pool = "destroying"
    /\ life' = [Exit(0) EXCEPT !.pool = "destroyed"]
    /\ UNCHANGED service

\* the timer of gracefulShutdown fires
ForcefulShutdown ==
    /\ ~Exited /\ life.timers > 0
    /\ life' = Exit(1)
    /\ UNCHANGED service

NextLife ==
    \/ TestConnectionFails \/ StartServerListens \/ StartServerListenError
    \/ Accept \/ EndConnection
    \/ \E signal \in Signals : GracefulShutdown(signal)
    \/ ServerClosed \/ CloseConnectionDone \/ ForcefulShutdown

InitLife ==
    /\ table = {}
    /\ clock = StartClock
    /\ nextId = Cardinality(table)
    /\ created = IdSeq(Ids(table))
    /\ ver = [i \in AllIds |-> IF i \in Ids(table) THEN 1 ELSE 0]
    /\ pc = [p \in Procs |-> "idle"]
    /\ req = [p \in Procs |-> NoReq]
    /\ loc = [p \in Procs |-> NoLoc]
    /\ resp = [p \in Procs |-> NoResp]
    /\ nq = [p \in Procs |-> 0]
    /\ prev = [p \in Procs |-> NoPrev]
    /\ issued = 0
    /\ sent = [p \in Procs |-> <<>>]
    /\ life = Booting

\* the process from its start to its exit
SpecLife == InitLife /\ [][NextLife]_vars

\* the event loop runs a timer that is due
FairLife == SpecLife /\ WF_vars(ForcefulShutdown)

----------------------------------------------------------------------------
(* Properties of the todo operations *)

\* every violation of a request, over all the validators of its route
AllViolations(r) == UNION SeqRange(Validators(r))

\* client p's request is received in this step
Received(p) == pc[p] = "idle" /\ pc'[p] # "idle"

\* C1: every creation payload that satisfies the creation contract results
\* in a created todo returned to the caller (201), with completed = false
\* unless the payload set it and priority = medium unless the payload set it,
\* also when tags or dueDate are present.
C1_ValidCreateSucceeds ==
    \A p \in Procs :
        (Done(p, "create") /\ CreateViolations(req[p].body, req[p].now) = {})
        => /\ resp[p].status = 201
           /\ resp[p].data # None
           /\ resp[p].data[1].completed =
                 (IF Has(req[p].body, "completed") THEN req[p].body.completed ELSE FALSE)
           /\ resp[p].data[1].priority =
                 (IF Has(req[p].body, "priority") THEN req[p].body.priority ELSE "medium")

\* client p has completed two toggles of one todo, one after the other, and
\* no other statement wrote that todo from the read of the first to the fetch
\* of the second
TwoToggles(p) ==
    /\ Done(p, "toggle") /\ resp[p].status = 200
    /\ prev[p].route = "toggle" /\ prev[p].id = req[p].id
    /\ prev[p].v1 = prev[p].v0 + 1
    /\ loc[p].v0 = prev[p].v1
    /\ loc[p].v1 = loc[p].v0 + 1

\* C2: two toggles of an existing todo executed one after the other, with no
\* other write to the todo, leave completed at its original value, and the
\* response of each carries the negation of the value stored just before it.
C2_DoubleToggle ==
    \A p \in Procs :
        TwoToggles(p)
        => /\ resp[p].data[1].completed = prev[p].before[1].completed
           /\ prev[p].data[1].completed = ~prev[p].before[1].completed
           /\ resp[p].data[1].completed = ~loc[p].before[1].completed

C2_Witness == \E p \in Procs : TwoToggles(p)

\* C5: a request that fails validation never reaches the service: no store
\* query runs for it, the table is unchanged, and the answer is a 400
\* envelope whose details hold one entry for every violation of the request.
C5_RejectedListsEveryViolation ==
    [][\A p \in Procs :
          (Received(p) /\ AllViolations(req'[p]) # {})
          => /\ pc'[p] = "done"
             /\ resp'[p].status = 400
             /\ resp'[p].details = AllViolations(req'[p])
             /\ nq'[p] = 0
             /\ table' = table]_vars

\* the update payload of a request carries none of the fields of a todo
ZeroFields(r) ==
    \/ r.route = "update" /\ (DOMAIN r.body) \cap TodoKeys = {}
    \/ /\ r.route = "bulkUpdate"
       /\ Has(r.body, "updateData")
       /\ (DOMAIN r.body.updateData) \cap TodoKeys = {}

\* C6: an update request (PUT /todos/:id, PATCH /todos/bulk) whose payload
\* contains zero fields is answered with a validation error and mutates
\* nothing: the table after the request equals the table before it.
C6_EmptyUpdateRejected ==
    [][\A p \in Procs :
          (Received(p) /\ ZeroFields(req'[p]))
          => /\ pc'[p] = "done"
             /\ resp'[p].status = 400
             /\ resp'[p].code = "VALIDATION_ERROR"
             /\ resp'[p].details # {}
             /\ table' = table]_vars

\* an empty update of existing rows was answered
C6_Witness ==
    /\ \E p \in Procs : /\ Done(p, "update") /\ req[p].body = EmptyBody
                        /\ req[p].id \in Ids(table) /\ resp[p].status = 400
    /\ \E p \in Procs : /\ Done(p, "bulkUpdate") /\ Has(req[p].body, "updateData")
                        /\ req[p].body.updateData = EmptyBody
                        /\ SeqRange(req[p].body.ids) \cap Ids(table) # {}
                        /\ resp[p].status = 400

\* C7: after a creation the returned and stored todo has createdAt equal to
\* updatedAt, whatever the clock does inside the insert hook.
C7_CreatedAtEqualsUpdatedAt ==
    \A p \in Procs :
        (Done(p, "create") /\ resp[p].status = 201)
        => resp[p].data[1].createdAt = resp[p].data[1].updatedAt

\* C8: each successful toggle stores an updatedAt strictly greater than the
\* updatedAt the todo had before that toggle.
C8_ToggleAdvancesUpdatedAt ==
    [][\A p \in Procs :
          (pc[p] = "tog_patch" /\ pc'[p] = "tog_fetch")
          => \A r \in table : \A r2 \in table' :
                (r.id = req[p].id /\ r2.id = req[p].id) => r2.updatedAt > r.updatedAt]_vars

UniqueIds == \A r1, r2 \in table : r1.id = r2.id => r1 = r2

FreshIds == \A i, j \in 1..Len(created) : created[i] = created[j] => i = j

\* an id enters the table only as the uuid the server generates in this step
IdsFromServer ==
    Ids(table') \ Ids(table) \subseteq
        (IF nextId' # nextId THEN {created'[Len(created')]} ELSE {})

\* C9: no two rows have the same id, the id of a created todo is generated
\* by the server and differs from every id created before, and an id field
\* of a creation, update or bulk-update payload never becomes the id of a row.
C9_ServerAssignedIds ==
    [](UniqueIds /\ FreshIds) /\ [][IdsFromServer]_vars

\* a creation and an update or bulk update that carried a client id have
\* changed the table
C9_Witness ==
    /\ \E p \in Procs : /\ Done(p, "create") /\ resp[p].status = 201
                        /\ Has(req[p].body, "id")
                        /\ req[p].body.id # resp[p].data[1].id
    /\ \E p \in Procs : /\ \/ Done(p, "update") /\ resp[p].data # None
                           \/ Done(p, "bulkUpdate") /\ resp[p].count > 0
                        /\ resp[p].status = 200
                        /\ Has(IF req[p].route = "update" THEN req[p].body
                                                         ELSE req[p].body.updateData, "id")

----------------------------------------------------------------------------
(* Properties of the list *)

RECURSIVE SumLen(_)
SumLen(pages) == IF pages = <<>> THEN 0 ELSE Len(Head(pages)) + SumLen(Tail(pages))

\* client p has received the pages 1..totalPages of its query
ScanComplete(p) ==
    /\ prev[p].route = "list"
    /\ Len(prev[p].pages) >= 1
    /\ Len(prev[p].pages) = prev[p].totalPages

\* C3: with a fixed limit and no writes between the requests, the pages
\* 1..totalPages of a query hold totalItems todos in all and no todo is on
\* two different pages, also when matching rows are equal in the sort field.
C3_PagesPartitionMatches ==
    \A p \in Procs :
        ScanComplete(p)
        => /\ SumLen(prev[p].pages) = prev[p].total
           /\ \A i, j \in 1..Len(prev[p].pages) :
                 i # j => SeqRange(prev[p].pages[i]) \cap SeqRange(prev[p].pages[j]) = {}

Min(a, b) == IF a < b THEN a ELSE b
Max(a, b) == IF a > b THEN a ELSE b

\* the response of an accepted list request of client p, for page pg and
\* limit l over the t matching rows of the table
PageIsWindow(p, pg, l, t) ==
    LET pgn  == resp[p].pagination
        rows == resp[p].rows
        q    == QueryValue(req[p].body)
    IN /\ pgn.currentPage = pg /\ pgn.itemsPerPage = l /\ pgn.totalItems = t
       /\ pgn.totalPages * l >= t /\ (pgn.totalPages - 1) * l < t
       /\ pgn.hasNextPage = (pg < pgn.totalPages)
       /\ pgn.hasPrevPage = (pg > 1)
       /\ Len(rows) = Min(l, Max(0, t - (pg - 1) * l))
       /\ \E o \in SortedOrders(Matching(table, q), q.sortBy, q.sortOrder) :
             \A i \in 1..Len(rows) : rows[i] = o[(pg - 1) * l + i]
       /\ pg > pgn.totalPages => rows = <<>>
       /\ t = 0 => pgn.totalPages = 0 /\ ~pgn.hasNextPage

\* C4: an accepted list request with page p and limit l over t matching rows
\* (no concurrent writes) answers currentPage = p, itemsPerPage = l,
\* totalItems = t, totalPages = ceil(t / l), hasNextPage = (p < totalPages),
\* hasPrevPage = (p > 1) and the rows at positions (p-1)*l .. (p-1)*l + l - 1
\* of the sorted matching rows; a page beyond the last is empty with the true
\* totals.
C4_PageAndMetadata ==
    \A p \in Procs :
        (Done(p, "list") /\ resp[p].status = 200)
        => PageIsWindow(p,
                        IF Has(req[p].body, "page") THEN req[p].body.page ELSE 1,
                        IF Has(req[p].body, "limit") THEN req[p].body.limit ELSE 10,
                        Cardinality(Matching(table, QueryValue(req[p].body))))

\* a partly filled last page, a full first page with a successor, and a page
\* beyond the last of a table with matching rows have been answered
C4_Witness ==
    /\ \E p \in Procs : /\ Done(p, "list") /\ resp[p].status = 200
                        /\ resp[p].pagination.hasNextPage
                        /\ Len(resp[p].rows) = resp[p].pagination.itemsPerPage
    /\ \E p \in Procs : /\ Done(p, "list") /\ resp[p].status = 200
                        /\ resp[p].pagination.currentPage > resp[p].pagination.totalPages
                        /\ resp[p].pagination.totalItems > 0
                        /\ resp[p].rows = <<>>

\* t is one whole element of the tag collection of row r
InTags(r, t) ==
    /\ r.tags # None
    /\ \E a \in TagLists : r.tags = Some(JsonStringify(a)) /\ t \in SeqRange(a)

\* C10: with query parameter tag = t accepted by validation, a row is matched
\* by the list filter if and only if t equals one whole element of the row's
\* tag collection; a row without tags is never matched.
C10_TagIsExactElement ==
    \A p \in Procs :
        (Done(p, "list") /\ resp[p].status = 200 /\ Has(req[p].body, "tag"))
        => /\ resp[p].pagination.totalItems =
                 Cardinality({r \in table : InTags(r, Trim(req[p].body.tag))})
           /\ \A i \in 1..Len(resp[p].rows) : InTags(resp[p].rows[i], Trim(req[p].body.tag))

\* the logical AND of the status and priority predicates present in query q
Selected(r, q) ==
    /\ (Has(q, "status") /\ q.status = "completed") => r.completed = TRUE
    /\ (Has(q, "status") /\ q.status = "pending") => r.completed = FALSE
    /\ Has(q, "priority") => r.priority = q.priority

\* client p has the answer of an accepted list request without search and tag
ListedByStatusAndPriority(p) ==
    /\ Done(p, "list") /\ resp[p].status = 200
    /\ ~Has(req[p].body, "search") /\ ~Has(req[p].body, "tag")

\* C11: the rows counted and returned by a list request are exactly the rows
\* that satisfy the AND of the predicates present: status=completed selects
\* completed = true, status=pending completed = false, status=all nothing,
\* priority=v selects priority = v; with no predicate every row matches.
C11_FiltersAreConjunction ==
    \A p \in Procs :
        ListedByStatusAndPriority(p)
        => LET sel  == {r \in table : Selected(r, req[p].body)}
               rows == resp[p].rows
               pgn  == resp[p].pagination
           IN /\ pgn.totalItems = Cardinality(sel)
              /\ SeqRange(rows) \subseteq sel
              /\ (pgn.currentPage = 1 /\ pgn.itemsPerPage >= Cardinality(sel))
                    => SeqRange(rows) = sel
              /\ (~Has(req[p].body, "status") /\ ~Has(req[p].body, "priority"))
                    => pgn.totalItems = Cardinality(table)

\* both predicates were present and selected some rows of the table, not all
C11_Witness ==
    \E p \in Procs :
        /\ ListedByStatusAndPriority(p)
        /\ Has(req[p].body, "status") /\ Has(req[p].body, "priority")
        /\ resp[p].rows # <<>>
        /\ SeqRange(resp[p].rows) # table
        /\ SeqRange(resp[p].rows) = {r \in table : Selected(r, req[p].body)}

\* sub occurs in s as a sequence of consecutive characters
Contains(s, sub) ==
    \E i \in 1..(Len(s) - Len(sub) + 1) : SubSeq(s, i, i + Len(sub) - 1) = sub

\* row r holds the text s in its title or in its description, whatever the case
Found(r, s) ==
    \/ Contains(Fold(r.title), Fold(s))
    \/ r.description # None /\ Contains(Fold(r.description[1]), Fold(s))

\* C12: with search = s a row passes the search predicate if and only if s
\* occurs, compared case-insensitively, as a literal substring of the row's
\* title or description; the two alternatives are one OR-group combined by
\* AND with the status and priority predicates.
C12_SearchIsLiteralSubstring ==
    \A p \in Procs :
        (Done(p, "list") /\ resp[p].status = 200 /\ Has(req[p].body, "search")
            /\ ~Has(req[p].body, "tag"))
        => LET sel == {r \in table : /\ Selected(r, req[p].body)
                                      /\ Found(r, Trim(req[p].body.search))}
           IN /\ resp[p].pagination.totalItems = Cardinality(sel)
              /\ SeqRange(resp[p].rows) \subseteq sel

\* the parameter k of query q, or d when it is absent
Given(q, k, d) == IF Has(q, k) THEN q[k] ELSE d

\* page, limit, status, priority, sortBy and sortOrder are in their ranges
SixInRange(q) ==
    /\ Given(q, "page", 1) >= 1
    /\ Given(q, "limit", 10) >= 1 /\ Given(q, "limit", 10) <= 100
    /\ Given(q, "status", "all") \in {"completed", "pending", "all"}
    /\ Given(q, "priority", "low") \in {"low", "medium", "high"}
    /\ Given(q, "sortBy", "createdAt") \in {"createdAt", "updatedAt", "dueDate", "priority", "title"}
    /\ Given(q, "sortOrder", "desc") \in {"asc", "desc"}

\* search and tag, when given, are non-empty after trimming and within their
\* lengths
TextsInRange(q) ==
    /\ Has(q, "search") => Trim(q.search) # <<>> /\ Len(Trim(q.search)) <= 100
    /\ Has(q, "tag") => Trim(q.tag) # <<>> /\ Len(Trim(q.tag)) <= 50

\* the response of client p echoes the parameters of its request with the
\* defaults for the absent ones, and its rows are the page these values give
UsesNormalized(p) ==
    LET q     == req[p].body
        page  == Given(q, "page", 1)
        limit == Given(q, "limit", 10)
        by    == Given(q, "sortBy", "createdAt")
        ord   == Given(q, "sortOrder", "desc")
        rows  == resp[p].rows
        pgn   == resp[p].pagination
    IN /\ pgn.currentPage = page /\ pgn.itemsPerPage = limit
       /\ resp[p].sorting = [sortBy |-> by, sortOrder |-> ord]
       /\ resp[p].filters.status = Given(q, "status", "all")
       /\ Len(rows) = Min(limit, Max(0, pgn.totalItems - (page - 1) * limit))
       /\ \A i \in 1..Len(rows) : Selected(rows[i], q)
       /\ \A i, j \in 1..Len(rows) :
             i < j => IF ord = "asc" THEN ~KeyLess(rows[j], rows[i], by)
                                     ELSE ~KeyLess(rows[i], rows[j], by)

\* the answer of a list request is a page with the normalized values when
\* the request is acceptable and a validation error otherwise
AnsweredBy(p, acceptable) ==
    /\ (resp[p].status = 200) = acceptable
    /\ resp[p].status = 200 => UsesNormalized(p)
    /\ resp[p].status # 200 => resp[p].status = 400 /\ resp[p].code = "VALIDATION_ERROR"

\* C13 as stated: a list request is accepted if and only if page is an
\* integer >= 1, limit is an integer in 1..100 and status, priority, sortBy
\* and sortOrder (when given) are in their enumerations; an accepted request
\* takes the defaults for its absent parameters, uses them for the query and
\* echoes them.
C13_AcceptedIffSixInRange ==
    \A p \in Procs : Done(p, "list") => AnsweredBy(p, SixInRange(req[p].body))

\* C13, amended: a list request is accepted if and only if page, limit,
\* status, priority, sortBy and sortOrder are in their ranges and search and
\* tag (when given) are non-empty after trimming with at most 100 and 50
\* characters; an accepted request takes the defaults (page 1, limit 10,
\* status all, sortBy createdAt, sortOrder desc) for its absent parameters,
\* uses them for the query and echoes them.
C13_AcceptedIffInSchema ==
    \A p \in Procs :
        Done(p, "list")
        => AnsweredBy(p, SixInRange(req[p].body) /\ TextsInRange(req[p].body))

\* limit = 100 without a page was accepted with rows, and page = 0 was
\* rejected
C13_Witness ==
    /\ \E p \in Procs : /\ Done(p, "list") /\ resp[p].status = 200
                        /\ req[p].body = [limit |-> 100]
                        /\ resp[p].rows # <<>>
    /\ \E p \in Procs : /\ Done(p, "list") /\ resp[p].status = 400
                        /\ Has(req[p].body, "page") /\ req[p].body.page = 0

\* client p's request of the given route is received in this step and passes
\* the validators of the route
Served(p, route) ==
    Received(p) /\ req'[p].route = route /\ AllViolations(req'[p]) = {}

\* C14: a bulk delete of a set of ids of which exactly M exist returns
\* deleted-count = M and is no error when some ids never existed; afterwards
\* each of the M rows is absent and stays absent, a get by an absent id
\* returns NotFound, and every row whose id was not in the set is unchanged.
C14_BulkDeleteRemovesExisting ==
    /\ [][\A p \in Procs :
            Served(p, "bulkDelete")
            => LET ids == SeqRange(req'[p].body.ids) IN
               /\ pc'[p] = "done"
               /\ resp'[p].status = 200
               /\ resp'[p].count = Cardinality({r \in table : r.id \in ids})
               /\ Ids(table') \cap ids = {}
               /\ table' = {r \in table : r.id \notin ids}]_vars
    /\ [][\A i \in AllIds : (ver[i] > 0 /\ i \notin Ids(table)) => i \notin Ids(table')]_vars
    /\ [][\A p \in Procs :
            (Served(p, "get") /\ req'[p].id \notin Ids(table))
            => /\ pc'[p] = "done"
               /\ resp'[p] = [NoResp EXCEPT !.status = 404, !.code = "NOT_FOUND",
                                             !.message = "Todo not found"]]_vars

\* a bulk delete of an existing and a never existing id has returned 1, and a
\* get by the deleted id has returned NotFound
C14_Witness ==
    /\ \E p \in Procs : /\ Done(p, "bulkDelete") /\ resp[p].status = 200
                        /\ resp[p].count = 1
                        /\ req[p].body.ids = <<1, ClientId>>
                        /\ ver[ClientId] = 0
    /\ \E p \in Procs : /\ Done(p, "get") /\ resp[p].status = 404
                        /\ req[p].id = 1 /\ ver[1] > 0
    /\ table # {}

\* the fields of a todo that update payload b carries
Patch(b) == [k \in (DOMAIN b) \cap TodoKeys |-> b[k]]

\* the value a row holds for field k of patch P once P is applied
PatchValue(P, k) ==
    CASE k = "title" -> Trim(P[k])
      [] k = "description" -> Some(Trim(P[k]))
      [] k = "dueDate" -> Some(P[k].t)
      [] k = "tags" -> Some(JsonStringify([i \in 1..Len(P[k].v) |-> Trim(P[k].v[i])]))
      [] OTHER -> P[k]

\* row r2 is row r with patch P applied at time t: the fields of P have the
\* patch values, updatedAt is t, every other field is as in r
PatchApplied(r, r2, P, t) ==
    /\ \A k \in TodoKeys : r2[k] = IF Has(P, k) THEN PatchValue(P, k) ELSE r[k]
    /\ r2.id = r.id
    /\ r2.createdAt = r.createdAt
    /\ r2.updatedAt = t

\* C15: a bulk update with id set I and valid patch P applies P to every
\* existing row whose id is in I (the fields of P take the patch values,
\* updatedAt is refreshed, the other fields keep their values), leaves the
\* rows outside I unchanged, reports no error for ids that do not exist and
\* returns the number of existing rows whose id is in I.
C15_BulkUpdateAppliesPatch ==
    [][\A p \in Procs :
          Served(p, "bulkUpdate")
          => LET ids == SeqRange(req'[p].body.ids)
                 P   == Patch(req'[p].body.updateData)
             IN /\ pc'[p] = "done"
                /\ resp'[p].status = 200
                /\ resp'[p].count = Cardinality({r \in table : r.id \in ids})
                /\ Ids(table') = Ids(table)
                /\ \A r \in table : r.id \notin ids => r \in table'
                /\ \A r \in table : \A r2 \in table' :
                      (r.id \in ids /\ r2.id = r.id) => PatchApplied(r, r2, P, clock)]_vars

\* client p's update was answered with success and no other statement wrote
\* the todo between the existence check and the fetch of the handler
UpdatedAlone(p) ==
    /\ Done(p, "update") /\ resp[p].status = 200
    /\ loc[p].v1 = loc[p].v0 + 1

\* C16: a successful update-by-id with payload P (no other request writing
\* the todo while it runs) returns the full updated todo in which every
\* field present in P has the payload value and every field not present in
\* P, in particular id and createdAt, keeps the value it had before;
\* updatedAt is refreshed, and no other row of the table is changed.
C16_UpdateFrame ==
    /\ [](\A p \in Procs :
            UpdatedAlone(p)
            => /\ resp[p].data # None
               /\ loc[p].before = loc[p].todo
               /\ PatchApplied(loc[p].before[1], resp[p].data[1], Patch(req[p].body),
                               resp[p].data[1].updatedAt)
               /\ resp[p].data[1].updatedAt >= loc[p].before[1].updatedAt)
    /\ [][\A p \in Procs :
            (pc[p] = "upd_patch" /\ pc'[p] = "upd_fetch")
            => /\ Ids(table') = Ids(table)
               /\ \A r \in table : r.id # req[p].id => r \in table'
               /\ \A r \in table : \A r2 \in table' :
                     (r.id = req[p].id /\ r2.id = r.id)
                     => PatchApplied(r, r2, Patch(req[p].body), clock)]_vars

\* an update whose payload carried a new title and an id has changed the
\* title of a todo next to another row that was left as it was
C16_Witness ==
    \E p \in Procs :
        /\ UpdatedAlone(p)
        /\ Has(req[p].body, "title") /\ Has(req[p].body, "id")
        /\ resp[p].data[1].title # loc[p].before[1].title
        /\ resp[p].data[1].completed
        /\ Cardinality(table) = 2

\* the failure envelope of a todo that does not exist
NotFound ==
    [NoResp EXCEPT !.status = 404, !.code = "NOT_FOUND", !.message = "Todo not found"]

\* C17: get-by-id, update-by-id, toggle and delete-by-id called with a
\* well-formed id that matches no row (in a request that passes validation)
\* each fail with the 404 envelope (code NOT_FOUND, message 'Todo not
\* found') and leave the table unchanged; delete-by-id succeeds only when it
\* removed exactly the row with that id.
C17_AbsentIdIsNotFound ==
    /\ [][\A p \in Procs : \A route \in {"get", "update", "toggle", "delete"} :
            (Served(p, route) /\ req'[p].id \notin Ids(table))
            => /\ pc'[p] = "done"
               /\ resp'[p] = NotFound
               /\ table' = table]_vars
    /\ [][\A p \in Procs :
            (Served(p, "delete") /\ resp'[p].status = 200)
            => /\ req'[p].id \in Ids(table)
               /\ table' = {r \in table : r.id # req'[p].id}
               /\ Cardinality(table') = Cardinality(table) - 1]_vars
    /\ [][\A p \in Procs :
            (Served(p, "delete") /\ req'[p].id \in Ids(table)) => resp'[p].status = 200]_vars

\* an update and a delete of an id without a row were answered over a table
\* that holds another row
C17_Witness ==
    /\ table # {}
    /\ \E p \in Procs : /\ Done(p, "update") /\ resp[p] = NotFound
                        /\ UpdateViolations(req[p].body) = {}
    /\ \E p \in Procs : Done(p, "delete") /\ resp[p] = NotFound

\* the path parameter of request r is no well-formed uuid
Malformed(r) == r.route \in {"get", "update", "delete", "toggle"} /\ r.id < 1

----------------------------------------------------------------------------
(* Properties of the statistics and of due-soon *)

\* client p has the statistics and no statement has written the table since
\* the first count of the request
QuietStats(p) ==
    /\ Done(p, "stats") /\ resp[p].status = 200
    /\ loc[p].ver0 = ver

\* client p received statistics computed without a concurrent write, then
\* client q toggled one pending todo to completed, which was the only write,
\* and then received statistics computed without a concurrent write
ToggledBetween(p, q) ==
    /\ Done(p, "stats") /\ Done(q, "stats")
    /\ loc[p].ver0 = loc[p].ver1
    /\ loc[q].ver0 = loc[q].ver1
    /\ prev[q].route = "toggle"
    /\ ~prev[q].before[1].completed /\ prev[q].data[1].completed
    /\ prev[q].v0 = loc[p].ver1[prev[q].id]
    /\ prev[q].v1 = prev[q].v0 + 1
    /\ loc[q].ver0 = [loc[p].ver1 EXCEPT ![prev[q].id] = @ + 1]

\* C19: with no concurrent writes the statistics are total = number of
\* rows, completed = rows with completed = true, pending = rows with
\* completed = false, overdue = rows with completed = false and dueDate <
\* now; so total = completed + pending and overdue <= pending, and toggling
\* one pending todo to completed raises completed by exactly 1, lowers
\* pending by exactly 1 and leaves total unchanged.
C19_StatisticsAreCounts ==
    /\ \A p \in Procs :
          QuietStats(p)
          => LET d == resp[p].data[1] IN
             /\ d.total = Cardinality(table)
             /\ d.completed = Cardinality({r \in table : r.completed = TRUE})
             /\ d.pending = Cardinality({r \in table : r.completed = FALSE})
             /\ d.overdue = Cardinality({r \in table : /\ r.completed = FALSE
                                                        /\ r.dueDate # None
                                                        /\ r.dueDate[1] < loc[p].now})
             /\ d.total = d.completed + d.pending
             /\ d.overdue <= d.pending
    /\ \A p, q \in Procs :
          ToggledBetween(p, q)
          => /\ resp[q].data[1].completed = resp[p].data[1].completed + 1
             /\ resp[q].data[1].pending = resp[p].data[1].pending - 1
             /\ resp[q].data[1].total = resp[p].data[1].total

\* statistics with an overdue and a completed todo were followed by a toggle
\* of a pending todo and by statistics again
C19_Witness ==
    \E p, q \in Procs :
        /\ ToggledBetween(p, q)
        /\ resp[p].data[1].overdue >= 1
        /\ resp[p].data[1].completed >= 1
        /\ QuietStats(q)

\* the day count of a due-soon request
DaysOf(q) == IF Has(q, "days") THEN q.days ELSE 7

\* C20: due-soon with day count d (integer 1..365, default 7) returns
\* exactly the rows with completed = false and a dueDate present with
\* dueDate <= now + d days, in ascending order of dueDate; completed todos
\* and todos without dueDate are never returned; a day count outside 1..365
\* is a validation error.
C20_DueSoonWindow ==
    \A p \in Procs :
        Done(p, "dueSoon")
        => LET d == DaysOf(req[p].body) IN
           /\ (resp[p].status = 200) = (d >= 1 /\ d <= 365)
           /\ resp[p].status # 200
                 => resp[p].status = 400 /\ resp[p].code = "VALIDATION_ERROR"
           /\ (resp[p].status = 200 /\ loc[p].ver0 = ver)
                 => LET rows == resp[p].rows
                        due  == {r \in table : /\ r.completed = FALSE
                                               /\ r.dueDate # None
                                               /\ r.dueDate[1] <= loc[p].now + d * Day}
                    IN /\ SeqRange(rows) = due
                       /\ Len(rows) = Cardinality(due)
                       /\ resp[p].meta = [days |-> d, count |-> Len(rows)]
                       /\ \A i, j \in 1..Len(rows) :
                             i < j => rows[i].dueDate[1] <= rows[j].dueDate[1]

\* with d = 3 a pending todo due in 2 days was returned while a pending todo
\* due in 4 days and a completed todo due in 1 day were not
C20_Witness ==
    \E p \in Procs :
        /\ Done(p, "dueSoon") /\ resp[p].status = 200
        /\ req[p].body = [days |-> 3]
        /\ \E r \in SeqRange(resp[p].rows) : r.dueDate = Some(loc[p].now + 2 * Day)
        /\ \E r \in table : /\ ~r.completed /\ r.dueDate = Some(loc[p].now + 4 * Day)
                             /\ r \notin SeqRange(resp[p].rows)
        /\ \E r \in table : /\ r.completed /\ r.dueDate = Some(loc[p].now + Day)
                             /\ r \notin SeqRange(resp[p].rows)

----------------------------------------------------------------------------
(* Properties of the presented todos *)

\* the tags of payload b as the schema normalizes them
GivenTags(b) == [i \in 1..Len(b.tags.v) |-> Trim(b.tags.v[i])]

\* presented todo j shows the stored tags of row r as the sequence they
\* serialize
ShowsTagsOf(j, r) ==
    IF r.tags = None THEN j.tags = None
    ELSE j.tags # None /\ JsonStringify(j.tags[1]) = r.tags[1]

\* C21: a todo created or updated with tags equal to a sequence T of valid
\* strings is presented by the create and update responses with tags equal
\* to T, and get and list responses present the stored serialized tags of a
\* row as the sequence of strings they encode, in the same order.
C21_TagsRoundTrip ==
    /\ \A p \in Procs :
          (/\ Done(p, "create") /\ CreateViolations(req[p].body, req[p].now) = {}
           /\ Has(req[p].body, "tags"))
          => /\ resp[p].status = 201
             /\ Len(sent[p]) = 1
             /\ sent[p][1].tags = Some(GivenTags(req[p].body))
    /\ \A p \in Procs :
          (/\ Done(p, "update") /\ AllViolations(req[p]) = {}
           /\ Has(req[p].body, "tags") /\ resp[p].status # 404)
          => /\ resp[p].status = 200
             /\ resp[p].data # None
                   => Len(sent[p]) = 1 /\ sent[p][1].tags = Some(GivenTags(req[p].body))
    /\ \A p \in Procs :
          (Done(p, "get") /\ resp[p].status = 200)
          => Len(sent[p]) = 1 /\ ShowsTagsOf(sent[p][1], resp[p].data[1])
    /\ \A p \in Procs :
          (Done(p, "list") /\ resp[p].status = 200)
          => /\ Len(sent[p]) = Len(resp[p].rows)
             /\ \A i \in 1..Len(sent[p]) : ShowsTagsOf(sent[p][i], resp[p].rows[i])

----------------------------------------------------------------------------
(* Properties of the list next to requests that write *)

\* C25: within one list request the count query and the page query see an
\* equivalent snapshot of the rows: the returned data is exactly the page
\* window of the rows counted in totalItems, so its length is
\* min(limit, max(0, totalItems - offset)), also when create, update, toggle
\* or delete requests of other clients execute between the two queries.
C25_PageOfTheRowsCounted ==
    \A p \in Procs :
        (Done(p, "list") /\ resp[p].status = 200)
        => LET pgn == resp[p].pagination IN
           Len(resp[p].rows) =
              Min(pgn.itemsPerPage,
                  Max(0, pgn.totalItems - (pgn.currentPage - 1) * pgn.itemsPerPage))

----------------------------------------------------------------------------
(* Properties of the statistics next to requests that write *)

\* the handler of client p moves from position a to position b in this step
Moves(p, a, b) == pc[p] = a /\ pc'[p] = b

\* C26 as stated: the four counts of one statistics request come from one
\* table state reached during the request, so that total = completed +
\* pending and overdue <= pending hold in every statistics response, also
\* when writes of other requests are interleaved with the count queries.
C26_CountsOfOneState ==
    \A p \in Procs :
        (Done(p, "stats") /\ resp[p].status = 200)
        => LET d == resp[p].data[1] IN
           /\ d.total = d.completed + d.pending
           /\ d.overdue <= d.pending

\* C26, amended: each of the four counts of one statistics request is exact
\* for the table state at the moment of its own query (total, completed,
\* pending, overdue, in this order); when no write falls between the first
\* query and the response, the four counts are exact for one table state,
\* total = completed + pending and overdue <= pending.
C26_CountsExactAtTheirQuery ==
    /\ [][\A p \in Procs :
            /\ Moves(p, "idle", "stats_completed")
                  => loc'[p].total = Cardinality(table)
            /\ Moves(p, "stats_completed", "stats_pending")
                  => /\ loc'[p].completed = Cardinality({r \in table : r.completed = TRUE})
                     /\ loc'[p].total = loc[p].total
            /\ Moves(p, "stats_pending", "stats_overdue")
                  => /\ loc'[p].pending = Cardinality({r \in table : r.completed = FALSE})
                     /\ loc'[p].total = loc[p].total
                     /\ loc'[p].completed = loc[p].completed
            /\ Moves(p, "stats_overdue", "done")
                  => resp'[p].data =
                        Some([total     |-> loc[p].total,
                              completed |-> loc[p].completed,
                              pending   |-> loc[p].pending,
                              overdue   |-> Cardinality({r \in table :
                                                /\ r.completed = FALSE
                                                /\ r.dueDate # None
                                                /\ r.dueDate[1] < clock})])]_vars
    /\ [](\A p \in Procs :
            (Done(p, "stats") /\ loc[p].ver0 = loc[p].ver1)
            => LET d == resp[p].data[1] IN
               /\ d.total = d.completed + d.pending
               /\ d.overdue <= d.pending)

\* statistics whose counts do not add up were answered after a write
\* between the count queries, next to statistics answered without one
C26_Witness ==
    /\ \E p \in Procs : /\ Done(p, "stats") /\ loc[p].ver0 # loc[p].ver1
                        /\ resp[p].data[1].total #
                              resp[p].data[1].completed + resp[p].data[1].pending
    /\ \E p \in Procs : QuietStats(p) /\ resp[p].data[1].total >= 1

----------------------------------------------------------------------------
(* Properties of the timestamps *)

\* C24: in every reachable state every row has updatedAt >= createdAt, and
\* the createdAt of a row never changes after its creation, whatever
\* create, update, toggle, bulk update and delete requests, with whatever
\* fields in their payloads, have been executed.
C24_UpdatedAtNotBeforeCreatedAt ==
    /\ [](\A r \in table : r.updatedAt >= r.createdAt)
    /\ [][\A r \in table : \A r2 \in table' :
            r2.id = r.id => r2.createdAt = r.createdAt]_vars

\* a todo created while the clock advanced, and an update whose payload
\* carried createdAt and updatedAt
C24_Witness ==
    /\ \E r \in table : r.createdAt >= StartClock /\ r.updatedAt > r.createdAt
    /\ \E p \in Procs : /\ Done(p, "update") /\ resp[p].status = 200
                        /\ Has(req[p].body, "createdAt") /\ Has(req[p].body, "updatedAt")
                        /\ resp[p].data # None
                        /\ resp[p].data[1].createdAt # req[p].body.createdAt

\* the response of client p is sent in this step
Answered(p) == pc[p] # "done" /\ pc'[p] = "done"

\* C23: every todo presented in a response carries isOverdue = (dueDate
\* present and dueDate < now and not completed), computed when the response
\* is written and never taken from the store or from the payload; a
\* completed todo and a todo without dueDate have isOverdue = false; and
\* with no concurrent writes the overdue count of the statistics is the
\* number of rows whose isOverdue would be true at that instant.
C23_IsOverdueIsDerived ==
    /\ [][\A p \in Procs :
            Answered(p)
            => \A i \in 1..Len(sent'[p]) :
                  LET j == sent'[p][i] IN
                  /\ j.isOverdue = (j.dueDate # None /\ j.dueDate[1] < clock' /\ ~j.completed)
                  /\ (j.completed \/ j.dueDate = None) => j.isOverdue = FALSE]_vars
    /\ [](\A p \in Procs :
            QuietStats(p)
            => resp[p].data[1].overdue =
                  Cardinality({r \in table : FormatJson(r, loc[p].now).isOverdue}))

\* a toggle has presented a completed todo with a due date in the past, and
\* a due-soon response presents an overdue todo
C23_Witness ==
    /\ \E p \in Procs : /\ Done(p, "toggle") /\ resp[p].status = 200
                        /\ sent[p][1].completed /\ sent[p][1].dueDate # None
                        /\ sent[p][1].dueDate[1] < clock
                        /\ ~sent[p][1].isOverdue
    /\ \E p \in Procs : /\ Done(p, "dueSoon") /\ resp[p].status = 200
                        /\ \E i \in 1..Len(sent[p]) : sent[p][i].isOverdue

----------------------------------------------------------------------------
(* Properties of the failures of the store *)

\* a query of the handler of client p fails with e in this step
StoreFails(p, e) == FailFirst(p, e) \/ FailLater(p, e)

\* C22: when the store fails a query of a todo operation, the caller
\* receives 503 SERVICE_UNAVAILABLE when the store is unreachable
\* (connection refused, host not found) and 400 when the store reports a
\* uniqueness violation; such a failure is not reported as 500.
C22_StoreFailureStatus ==
    [][\A p \in Procs : \A e \in StoreErrors :
          StoreFails(p, e)
          => /\ resp'[p].status = (IF e = "ER_DUP_ENTRY" THEN 400 ELSE 503)
             /\ e # "ER_DUP_ENTRY" => resp'[p].code = "SERVICE_UNAVAILABLE"
             /\ resp'[p].status # 500]_vars

----------------------------------------------------------------------------
(* Properties of requests that write one todo *)

\* client p has the success response of a toggle of the todo with this id
Toggled(p, id) == Done(p, "toggle") /\ req[p].id = id /\ resp[p].status = 200

\* the row of the table with this id
RowOf(id) == CHOOSE r \in table : r.id = id

\* C29: after n toggle requests on one existing todo have all completed
\* successfully, under any interleaving of their read and write steps and
\* with no other write to that todo, its completed value is the original
\* value if n is even and the negation of the original value if n is odd.
C29_TogglesCompose ==
    \A id \in AllIds : \A p \in Procs :
        (Toggled(p, id) /\ loc[p].v0 = 1 /\ id \in Ids(table))
        => LET original == loc[p].todo[1].completed IN
           /\ ver[id] = 2 => RowOf(id).completed = ~original
           /\ (ver[id] = 3 /\ \E q \in Procs \ {p} : Toggled(q, id))
                 => RowOf(id).completed = original

\* client p is inside patchAndFetchById of an update or of a toggle
Patching(p) == pc[p] \in {"upd_patch", "tog_patch", "upd_fetch", "tog_fetch"}

\* the patch client p is about to send passes the model's schema and meets
\* no other row's key
PatchAccepted(p) ==
    \/ req[p].route = "toggle"
    \/ LET data == ProcessTags(UpdateValue(req[p].body)) IN
       /\ ModelValid(data, TRUE)
       /\ ~DuplicateKey(table, {req[p].id}, BeforeUpdate(data, clock))

\* C30: an update-by-id or toggle whose todo was deleted (singly or in bulk)
\* after the handler read it answers NotFound (404) or a success carrying
\* the updated todo, never a success without an entity; the deleted row is
\* neither re-created nor modified.
C30_UpdateNextToDelete ==
    [][\A p \in Procs :
         (Patching(p) /\ pc'[p] = "done" /\ PatchAccepted(p)
            /\ req[p].id \notin Ids(table))
         => /\ \/ resp'[p].status = 404
               \/ resp'[p].status = 200 /\ resp'[p].data # None
            /\ table' = table]_vars

----------------------------------------------------------------------------
(* Properties of the process *)

\* C27: after a shutdown trigger (SIGTERM, SIGINT, uncaught exception,
\* unhandled rejection) the process always eventually exits; it exits with
\* code 0 only after the HTTP server has stopped accepting and has closed
\* its accepted connections and the close of the pool has then been
\* attempted, and otherwise it is terminated with code 1 when the deadline
\* of the timer expires; in every state in which the trigger can arrive,
\* also before the server listens and when a second trigger arrives during
\* a shutdown.
C27_ShutdownDrainsThenExits ==
    /\ (life.signals # <<>>) ~> Exited
    /\ [](life.exit = Some(0)
            => /\ life.server = "closed" /\ life.conns = 0
               /\ life.pool # "open")
    /\ []((life.exit = Some(1) /\ life.signals # <<>>) => life.timers > 0)

\* C28: at startup the HTTP server begins listening only after the
\* connectivity test of the store has succeeded; when the test fails the
\* process exits with code 1 without ever having listened or accepted a
\* request.
C28_ListensOnlyAfterTest ==
    /\ [](life.server # "none" => life.start = "ok")
    /\ [](life.accepted > 0 => life.start = "ok")
    /\ [](life.start = "failed"
            => /\ life.exit = Some(1)
               /\ life.server = "none"
               /\ life.accepted = 0)
    /\ [][life.start = "testing" /\ life'.start = "ok" /\ ~Exited'
            => life'.server = "listening"]_vars

\* the test has failed and the process has exited
C28_Witness == life.start = "failed" /\ life.exit = Some(1)

====
